---- MODULE Spec2Model ----
(***************************************************************************)
(* Model of the SSO report pipeline of SSO_Downloader.                     *)
(*                                                                         *)
(* frontend/scripts/SSO_Parse.py: main() walks a directory of report PDFs, *)
(* extracts one row per document (process_pdf), de-duplicates the rows by  *)
(* report id keeping the newest footer timestamp (dedupe_keep_newest),     *)
(* disambiguates receiving-water names shared by several permittees        *)
(* (disambiguate_waterways, utility_short_name) and writes the CSV.        *)
(*                                                                         *)
(* frontend/scripts/sso_volume.py: parse_est_volume, a pure function.      *)
(*                                                                         *)
(* frontend/scripts/sso_client.py: SSOClient.fetch_ssos, the paged query   *)
(* of a feature layer.  parse_only.py: the batch loop of main.             *)
(* frontend/backend/src/parser.py: SSOParser.parse_text, the volume        *)
(* fields.  frontend/scripts/sso_transform.py: the alias lookup of         *)
(* normalize_sso_record.  SSODownloadOnly.py: scrape_links and             *)
(* download_pdfs run repeatedly against one listing.                       *)
(*                                                                         *)
(* Strings are sequences of tokens (words); "" is << >>.  A whitespace     *)
(* token is " ".                                                           *)
(***************************************************************************)
EXTENDS Integers, Sequences, FiniteSets, TLC

\* ------------------------------------------------------------------ bounds
\* Largest number of PDF files the input directory tree holds.
MaxDocs == 3

\* Largest length of the volume strings made of digits, commas and blanks.
MaxNumLen == 4

\* Largest number of pages of a document handed to SSOParser.process_file.
MaxPages == 2

\* Largest number of records the feature layer holds for a query.
MaxRecords == 4

\* Largest number of features the server puts in one response.
MaxPageCap == 3

\* Largest number of rows of the remote document listing.
MaxRows == 3

\* Largest number of runs of the downloader against one listing.
MaxRuns == 2

\* ------------------------------------------------------------------ strings
Empty == << >>

\* str.isspace() on the tokens that occur in the texts.
IsSpace(tok) == tok \in {" ", "\n"}

RECURSIVE LStrip(_)
LStrip(s) == IF s # Empty /\ IsSpace(Head(s)) THEN LStrip(Tail(s)) ELSE s

RECURSIVE RStrip(_)
RStrip(s) ==
    IF s # Empty /\ IsSpace(s[Len(s)]) THEN RStrip(SubSeq(s, 1, Len(s) - 1)) ELSE s

\* _clean(s): (s or "").strip()
Clean(s) == RStrip(LStrip(s))

\* str.lower() on the words that occur in permittee names.
Lower(tok) ==
    CASE tok = "City" -> "city"
      [] tok = "Town" -> "town"
      [] tok = "County" -> "county"
      [] tok = "Of" -> "of"
      [] tok = "Baldwin" -> "baldwin"
      [] tok = "Sewer" -> "sewer"
      [] tok = "Service" -> "service"
      [] tok = "Service," -> "service,"
      [] tok = "LLC" -> "llc"
      [] tok = "Daphne" -> "daphne"
      [] tok = "Fairhope" -> "fairhope"
      [] tok = "Spanish" -> "spanish"
      [] tok = "Fort" -> "fort"
      [] tok = "Foley" -> "foley"
      [] tok = "Robertsdale" -> "robertsdale"
      [] tok = "(BCSS)" -> "(bcss)"
      [] tok = "Water" -> "water"
      [] tok = "And" -> "and"
      [] tok = "Board" -> "board"
      [] tok = "Utilities" -> "utilities"
      [] tok = "Utility" -> "utility"
      [] tok = "The" -> "the"
      [] tok = "AL0049859" -> "al0049859"
      [] tok = "ALSI9902013" -> "alsi9902013"
      [] tok = "Village" -> "village"
      [] tok = "Area" -> "area"
      [] tok = "System" -> "system"
      [] tok = "Works" -> "works"
      [] tok = "Sanitary" -> "sanitary"
      [] tok = "Commissioners" -> "commissioners"
      [] tok = "Mobile" -> "mobile"
      [] tok = "Anniston" -> "anniston"
      [] tok = "Bay" -> "bay"
      [] tok = "CITY" -> "city"
      [] tok = "OF" -> "of"
      [] tok = "Foley," -> "foley,"
      [] tok = "Utilities," -> "utilities,"
      [] tok = "Bay," -> "bay,"
      [] tok = "Anniston," -> "anniston,"
      [] tok = "Mobile," -> "mobile,"
      [] tok = "System," -> "system,"
      [] tok = "(BCSS)," -> "(bcss),"
      [] tok = "AL" -> "al"
      [] tok = "MAWSS" -> "mawss"
      [] tok = "BCSS" -> "bcss"
      [] tok = "Hills" -> "hills"
      [] tok = "G" -> "g"
      [] tok = "A" -> "a"
      [] tok = "L" -> "l"
      [] tok = "O" -> "o"
      [] tok = "South" -> "south"
      [] tok = "Alabama" -> "alabama"
      [] tok = "SOUTH" -> "south"
      [] tok = "ALABAMA" -> "alabama"
      [] tok = "UTILITIES" -> "utilities"
      [] tok = "Al0049859" -> "al0049859"
      [] tok = "Sewer," -> "sewer,"
      [] OTHER -> tok

LowerStr(s) == [i \in 1..Len(s) |-> Lower(s[i])]

\* ------------------------------------------------------------------ inputs
\* The directory tree under PDF_DIR: the top directory and one sub-directory.
Dirs == <<"root", "sub">>

\* File names in sorted() order (code-point order of str).
SortedNames == <<"a.pdf", "b.pdf", "notes.txt">>

\* filename.lower().endswith(".pdf")
IsPdfName(name) == name \in {"a.pdf", "b.pdf"}

AllFiles ==
    {<<"root", "a.pdf">>, <<"root", "b.pdf">>, <<"sub", "a.pdf">>, <<"sub", "b.pdf">>,
     <<"root", "notes.txt">>}

\* Page footers: none, or a date (day number) with a 12-hour clock time.
NoFooter == Empty
Footers ==
    {NoFooter,
     <<[day |-> 1, hour |-> 11, ampm |-> "AM"]>>,
     <<[day |-> 1, hour |-> 1, ampm |-> "PM"]>>,
     <<[day |-> 2, hour |-> 9, ampm |-> "AM"]>>}

SsoIds == {Empty, <<"SSO-1">>, <<"SSO-2">>}

CypressCreek == <<"Cypress", "Creek">>
UniqueBayou == <<"Unique", "Bayou">>

CityOfSpanishFort == <<"City", "of", "Spanish", "Fort">>
TownOfSpanishFort == <<"Town", "of", "Spanish", "Fort">>
BaldwinBCSS == <<"Baldwin", "County", "Sewer", "Service", "(BCSS)">>

\* A document whose processing raises (unreadable PDF).
Unreadable ==
    [readable |-> FALSE, sso_id |-> Empty, footer |-> NoFooter, permittee |-> Empty,
     receiving_water |-> Empty, start |-> Empty, volume |-> Empty]

\* Documents that differ in report id and footer, and a copy of report SSO-1
\* in which no volume was found.
DedupeDocs ==
    {[readable |-> TRUE, sso_id |-> id, footer |-> f, permittee |-> CityOfSpanishFort,
      receiving_water |-> CypressCreek, start |-> <<"2024-01-01T08:00:00">>,
      volume |-> <<"500">>] : id \in SsoIds, f \in Footers}
    \cup {[readable |-> TRUE, sso_id |-> <<"SSO-1">>, footer |-> f,
            permittee |-> CityOfSpanishFort, receiving_water |-> CypressCreek,
            start |-> <<"2024-01-01T08:00:00">>, volume |-> Empty] :
                f \in {NoFooter}}
    \cup {Unreadable}

WaterDoc(id, p, w) ==
    [readable |-> TRUE, sso_id |-> id, footer |-> NoFooter, permittee |-> p,
     receiving_water |-> w, start |-> <<"2024-01-01T08:00:00">>, volume |-> <<"500">>]

\* Documents that differ in permittee and receiving water: without a report
\* id, and reports of Cypress Creek that carry one.
WaterDocs ==
    {WaterDoc(Empty, p, w) :
        p \in {Empty, CityOfSpanishFort, TownOfSpanishFort, BaldwinBCSS},
        w \in {Empty, CypressCreek, UniqueBayou}}
    \cup {WaterDoc(<<"SSO-1">>, p, CypressCreek) :
            p \in {Empty, CityOfSpanishFort, TownOfSpanishFort}}
    \cup {Unreadable}

PdfFiles(S) == {f \in S : IsPdfName(f[2])}

\* The directory tree `d` holds at most MaxDocs PDF files, with contents from
\* `corpus`.  A file that is no PDF has no report content.
IsDisk(d, corpus) ==
    \E S \in SUBSET AllFiles :
        /\ Cardinality(PdfFiles(S)) <= MaxDocs
        /\ \E c \in [PdfFiles(S) -> corpus] :
              d = [f \in S |-> IF IsPdfName(f[2]) THEN c[f] ELSE Unreadable]

\* ------------------------------------------------------------------ state
VARIABLES
    disk,           \* PDF_DIR: path -> document
    pdf_paths,      \* main: pdf_paths
    rows,           \* main: rows; rows[i] is the i-th record object
    missing_crit,   \* main: missing_crit
    by_key,         \* main: by_key, an insertion-ordered dict of (key, record object)
    deduped_rows,   \* main: deduped_rows, record objects (indices into rows)
    csv,            \* rows written to OUTPUT_CSV
    summary,        \* the counts main prints
    pc,             \* main's position
    vol_raw,        \* parse_est_volume: the argument raw (None or a string)
    vol_out,        \* parse_est_volume: what the call returned or raised
    vpc,            \* position of the caller of parse_est_volume
    pdf,            \* SSOParser.process_file: the document at file_path
    report,         \* SSOParser.process_file: what the call returned
    ppc,            \* position of the caller of process_file
    raw_in,         \* normalize_sso_record: the argument raw
    sso_record,     \* normalize_sso_record: what the call returned or raised
    issues,         \* run_basic_qa: the issues returned
    qpc,            \* position of the caller of normalize_sso_record
    permittee_name, \* simplify_permittee_name: the argument name
    simplified,     \* simplify_permittee_name: what the call returned
    npc,            \* position of the caller of simplify_permittee_name
    layer,          \* fetch_ssos: the feature layer the client queries
    limit,          \* fetch_ssos: the argument limit (None or a count)
    result_record_count, \* fetch_ssos: extra_params["resultRecordCount"] or None
    page_size,      \* fetch_ssos: the local page_size
    offset,         \* fetch_ssos: the local offset
    fetched,        \* fetch_ssos: the local records, then the list returned
    requests,       \* the resultOffset of each query request sent (None: not sent)
    fpc,            \* position of the caller of fetch_ssos
    by_sso,         \* parse_only.main: the ordered dict of rows by report id
    batch_paths,    \* parse_only.main: the PDF paths in the order of the walk
    batch_read,     \* parse_only.main: the number of paths the loop has taken
    batch_csv,      \* parse_only.main: the rows written to OUTPUT_CSV
    bpc,            \* parse_only.main's position
    text_in,        \* SSOParser.parse_text: the argument text
    text_report,    \* SSOParser.parse_text: the report returned
    tpc,            \* position of the caller of parse_text
    raw_permit_no,  \* sso_transform.normalize_sso_record: raw["permit_no"]
    raw_permittee,  \* sso_transform.normalize_sso_record: raw["permittee"]
    utility_name,   \* sso_transform.normalize_sso_record: utility_name of the record
    apc,            \* position of the caller of sso_transform.normalize_sso_record
    listing,        \* SSODownloadOnly: the rows of the remote result table
    saved,          \* SSODownloadOnly: the files of DOWNLOAD_DIR and the document in each
    links,          \* SSODownloadOnly: the list scrape_links returned
    dl_next,        \* download_pdfs: the index of the next link of the loop
    dl_count,       \* download_pdfs: the local count
    dl_limit,       \* download_pdfs: the argument limit (None or a count)
    dl_run,         \* the number of the run of the downloader
    dpc             \* the downloader's position

mainvars == <<disk, pdf_paths, rows, missing_crit, by_key, deduped_rows, csv, summary, pc>>

volvars == <<vol_raw, vol_out, vpc>>

parservars == <<pdf, report, ppc>>

schemavars == <<raw_in, sso_record, issues, qpc>>

namevars == <<permittee_name, simplified, npc>>

fetchvars == <<layer, limit, result_record_count, page_size, offset, fetched, requests, fpc>>

batchvars == <<by_sso, batch_paths, batch_read, batch_csv, bpc>>

textvars == <<text_in, text_report, tpc>>

aliasvars == <<raw_permit_no, raw_permittee, utility_name, apc>>

downloadvars == <<listing, saved, links, dl_next, dl_count, dl_limit, dl_run, dpc>>

extvars == <<fetchvars, batchvars, textvars, aliasvars, downloadvars>>

callvars == <<volvars, parservars, schemavars, namevars, extvars>>

vars == <<mainvars, callvars>>

\* ------------------------------------------------------------------ process_pdf
\* extract_submission_ts: strptime with "%m/%d/%Y %H:%M:%S %p"; %H reads the
\* hour as written and %p has no effect without %I.  None is << >>.
extract_submission_ts(footer) ==
    IF footer = NoFooter THEN Empty
    ELSE <<footer[1].day * 24 + footer[1].hour>>

process_pdf(path, doc) ==
    [sso_id |-> doc.sso_id,
     permittee |-> doc.permittee,
     start |-> doc.start,
     volume |-> doc.volume,
     receiving_water |-> doc.receiving_water,
     file_name |-> <<path[2]>>,
     ts |-> extract_submission_ts(doc.footer)]

\* ------------------------------------------------------------------ dedupe
NoIdPrefix == "__noid__"

\* Mutant: every record is keyed by its file name, also when it has a report id.
DedupeKeyByFileName(r) == <<NoIdPrefix>> \o Clean(r.file_name)

\* key = sso_id if sso_id else f"__noid__{_clean(file_name)}"
DedupeKey(r) ==
    LET sso_id == Clean(r.sso_id)
    IN  IF sso_id # Empty THEN sso_id ELSE <<NoIdPrefix>> \o Clean(r.file_name)

\* Position of key in the ordered dict, 0 when absent.
KeyPos(d, key) ==
    IF \E j \in 1..Len(d) : d[j].key = key
    THEN CHOOSE j \in 1..Len(d) : d[j].key = key
    ELSE 0

\* by_key[key] = r: a new key goes last, an old key keeps its place.
DictPut(d, key, ref) ==
    LET j == KeyPos(d, key)
    IN  IF j = 0 THEN Append(d, [key |-> key, ref |-> ref])
        ELSE [d EXCEPT ![j] = [key |-> key, ref |-> ref]]

\* Mutant: the comparison of the two timestamps is reversed (the older copy wins).
DedupeStepKeepOldest(recs, d, i) ==
    LET r == recs[i]
        key == DedupeKey(r)
        ts_new == r.ts
        j == KeyPos(d, key)
    IN  IF j = 0 THEN DictPut(d, key, i)
        ELSE LET ts_old == recs[d[j].ref].ts
             IN  IF ts_new # Empty /\ ts_old = Empty THEN DictPut(d, key, i)
                 ELSE IF ts_new # Empty /\ ts_old # Empty /\ ts_new[1] < ts_old[1]
                      THEN DictPut(d, key, i)
                      ELSE d

\* Mutant: a timestamped copy does not replace a stored copy that has no timestamp.
DedupeStepNoUntimedReplace(recs, d, i) ==
    LET r == recs[i]
        key == DedupeKey(r)
        ts_new == r.ts
        j == KeyPos(d, key)
    IN  IF j = 0 THEN DictPut(d, key, i)
        ELSE LET ts_old == recs[d[j].ref].ts
             IN  IF ts_new # Empty /\ ts_old # Empty /\ ts_new[1] > ts_old[1]
                 THEN DictPut(d, key, i)
                 ELSE d

\* One iteration of the loop of dedupe_keep_newest on record object recs[i].
DedupeStep(recs, d, i) ==
    LET r == recs[i]
        key == DedupeKey(r)
        ts_new == r.ts
        j == KeyPos(d, key)
    IN  IF j = 0 THEN DictPut(d, key, i)
        ELSE LET ts_old == recs[d[j].ref].ts
             IN  IF ts_new # Empty /\ ts_old = Empty THEN DictPut(d, key, i)
                 ELSE IF ts_new # Empty /\ ts_old # Empty /\ ts_new[1] > ts_old[1]
                      THEN DictPut(d, key, i)
                      ELSE d

RECURSIVE DedupeLoop(_, _, _)
DedupeLoop(recs, d, i) ==
    IF i > Len(recs) THEN d ELSE DedupeLoop(recs, DedupeStep(recs, d, i), i + 1)

\* Mutant: the loop starts at the second row.
dedupe_skip_first(recs) == DedupeLoop(recs, << >>, 2)

\* dedupe_keep_newest(rows): the ordered dict key -> record object (index in recs).
dedupe_keep_newest(recs) == DedupeLoop(recs, << >>, 1)

\* list(by_key.values())
DictValues(d) == [j \in 1..Len(d) |-> d[j].ref]

\* ------------------------------------------------------------------ waterways
\* UTILITY_ABBREVS, in dict order.
UTILITY_ABBREVS ==
    <<[k |-> <<"Baldwin", "County", "Sewer", "Service">>, v |-> <<"BCSS">>],
      [k |-> <<"Baldwin", "County", "Sewer", "Service,", "LLC">>, v |-> <<"BCSS">>],
      [k |-> <<"City", "of", "Daphne">>, v |-> <<"Daphne">>],
      [k |-> <<"City", "of", "Fairhope">>, v |-> <<"Fairhope">>],
      [k |-> <<"City", "of", "Spanish", "Fort">>, v |-> <<"Spanish", "Fort">>],
      [k |-> <<"City", "of", "Foley">>, v |-> <<"Foley">>],
      [k |-> <<"City", "of", "Robertsdale">>, v |-> <<"Robertsdale">>]>>

\* re.search(r"\(([A-Z]{2,6})\)", p) on one word: the acronym, or << >>.
AcronymOf(tok) == IF tok \in {"(BCSS)", "(BCSS),"} THEN <<"BCSS">> ELSE Empty

\* The single words of _WORDS_TO_STRIP (matched with re.I).
StripWord(tok) ==
    Lower(tok) \in {"city", "town", "village", "county", "board", "department",
                    "authority", "of", "the"}

\* Number of words a match of _WORDS_TO_STRIP takes at the head of s, 0 for none.
StripLen(s) ==
    LET low == LowerStr(s)
    IN  IF Len(s) >= 4 /\ SubSeq(low, 1, 4) \in {<<"water", "and", "sewer", "board">>,
                                                  <<"water", "&", "sewer", "board">>}
        THEN 4
        ELSE IF Len(s) >= 2 /\ SubSeq(low, 1, 2) \in {<<"utilities", "board">>,
                                                       <<"utility", "board">>}
        THEN 2
        ELSE IF Len(s) >= 1 /\ StripWord(s[1]) THEN 1
        ELSE 0

\* _WORDS_TO_STRIP.sub("", p), then strip and collapse spaces, then split()
RECURSIVE StripBoilerplate(_)
StripBoilerplate(s) ==
    IF s = Empty THEN Empty
    ELSE LET n == StripLen(s)
         IN  IF n > 0 THEN StripBoilerplate(SubSeq(s, n + 1, Len(s)))
             ELSE IF IsSpace(Head(s)) THEN StripBoilerplate(Tail(s))
             ELSE <<Head(s)>> \o StripBoilerplate(Tail(s))

utility_short_name(permittee) ==
    LET p == Clean(permittee)
        hits == {j \in 1..Len(UTILITY_ABBREVS) : LowerStr(p) = LowerStr(UTILITY_ABBREVS[j].k)}
        acro == {j \in 1..Len(p) : AcronymOf(p[j]) # Empty}
        parts == StripBoilerplate(p)
    IN  IF p = Empty THEN Empty
        ELSE IF hits # {} THEN UTILITY_ABBREVS[CHOOSE j \in hits : \A h \in hits : j <= h].v
        ELSE IF acro # {} THEN AcronymOf(p[CHOOSE j \in acro : \A h \in acro : j <= h])
        ELSE IF Len(parts) >= 2 THEN SubSeq(parts, Len(parts) - 1, Len(parts))
        ELSE IF parts # Empty THEN parts
        ELSE p

\* index: the permittees that report a receiving-water name
Owners(heap, refs, name) ==
    {Clean(heap[refs[j]].permittee) :
        j \in {h \in 1..Len(refs) : Clean(heap[refs[h]].receiving_water) = name}}

\* Mutant: the empty permittee counts as an owner.
CollisionsCountingEmpty(heap, refs) ==
    {name \in {Clean(heap[refs[j]].receiving_water) : j \in 1..Len(refs)} :
        name # Empty /\ Cardinality(Owners(heap, refs, name)) > 1}

\* collisions: the names with more than one non-empty owner
Collisions(heap, refs) ==
    {name \in {Clean(heap[refs[j]].receiving_water) : j \in 1..Len(refs)} :
        name # Empty /\ Cardinality(Owners(heap, refs, name) \ {Empty}) > 1}

\* f"{name} - {tag}"
Tagged(name, tag) == name \o <<"-">> \o tag

\* Mutant: the tagged name is computed but not stored in the record.
RewriteStepNoStore(heap, refs, collisions, j) == heap

\* One iteration of the second loop of disambiguate_waterways, on object refs[j].
RewriteStep(heap, refs, collisions, j) ==
    LET r == heap[refs[j]]
        name == Clean(r.receiving_water)
        tag == utility_short_name(Clean(r.permittee))
    IN  IF name = Empty \/ name \notin collisions THEN heap
        ELSE IF tag # Empty
             THEN [heap EXCEPT ![refs[j]].receiving_water = Tagged(name, tag)]
             ELSE heap

RECURSIVE RewriteLoop(_, _, _, _)
RewriteLoop(heap, refs, collisions, j) ==
    IF j > Len(refs) THEN heap
    ELSE RewriteLoop(RewriteStep(heap, refs, collisions, j), refs, collisions, j + 1)

\* disambiguate_waterways(rows): the record objects afterwards.
disambiguate_waterways(heap, refs) ==
    LET collisions == Collisions(heap, refs)
    IN  IF collisions = {} THEN heap ELSE RewriteLoop(heap, refs, collisions, 1)

\* ------------------------------------------------------------------ sso_volume
\* Volume strings are sequences of characters.  None is << >>, a present
\* value x is <<x>>.
None == << >>
Some(x) == <<x>>

DigitChars == <<"0", "1", "2", "3", "4", "5", "6", "7", "8", "9">>
IsDigit(c) == \E k \in 1..Len(DigitChars) : DigitChars[k] = c
DigitVal(c) == (CHOOSE k \in 1..Len(DigitChars) : DigitChars[k] = c) - 1

\* The character U+2265 (greater-than-or-equal sign).
GeSign == ">="

\* _BUCKET_MAPPINGS, in dict order.
BUCKET_MAPPINGS ==
    <<
      [key |-> <<"<", "=", "1", ",", "0">>, lower |-> 0, upper |-> 1000],
      [key |-> <<"<", "=", "1", ",", "0", "0", "0">>, lower |-> 0, upper |-> 1000],
      [key |-> <<"<", "=", "1", "0", "0", "0">>, lower |-> 0, upper |-> 1000],
      [key |-> <<"1", ",", "0", "0", "0", "<", "g", "a", "l", "l">>, lower |-> 1000, upper |-> 10000],
      [key |-> <<"1", "0", "0", "0", "<", "g", "a", "l", "l">>, lower |-> 1000, upper |-> 10000],
      [key |-> <<"1", "0", ",", "0", "0", "0", "<", "g", "a", "l", "l">>, lower |-> 10000, upper |-> 25000],
      [key |-> <<"1", "0", "0", "0", "0", "<", "g", "a", "l", "l">>, lower |-> 10000, upper |-> 25000],
      [key |-> <<"2", "5", ",", "0", "0", "0", "<", "g", "a", "l", "l">>, lower |-> 25000, upper |-> 50000],
      [key |-> <<"2", "5", "0", "0", "0", "<", "g", "a", "l", "l">>, lower |-> 25000, upper |-> 50000],
      [key |-> <<"5", "0", ",", "0", "0", "0", "<", "g", "a", "l", "l">>, lower |-> 50000, upper |-> 75000],
      [key |-> <<"5", "0", "0", "0", "0", "<", "g", "a", "l", "l">>, lower |-> 50000, upper |-> 75000],
      [key |-> <<"7", "5", ",", "0", "0", "0", "<", "g", "a", "l", "l">>, lower |-> 75000, upper |-> 100000],
      [key |-> <<"7", "5", "0", "0", "0", "<", "g", "a", "l", "l">>, lower |-> 75000, upper |-> 100000],
      [key |-> <<"7", "5", ",", "0", "0", "0", "<", "g", "a", "l", "l", "o">>, lower |-> 75000, upper |-> 100000],
      [key |-> <<"1", "0", "0", ",", "0", "0", "0", "<", "g", "a", "l", "l">>, lower |-> 100000, upper |-> 250000],
      [key |-> <<"1", "0", "0", "0", "0", "0", "<", "g", "a", "l", "l">>, lower |-> 100000, upper |-> 250000],
      [key |-> <<"2", "5", "0", ",", "0", "0", "0", "<", "g", "a", "l", "l">>, lower |-> 250000, upper |-> 500000],
      [key |-> <<"2", "5", "0", "0", "0", "0", "<", "g", "a", "l", "l">>, lower |-> 250000, upper |-> 500000],
      [key |-> <<"5", "0", "0", ",", "0", "0", "0", "<", "g", "a", "l", "l">>, lower |-> 500000, upper |-> 750000],
      [key |-> <<"5", "0", "0", "0", "0", "0", "<", "g", "a", "l", "l">>, lower |-> 500000, upper |-> 750000],
      [key |-> <<"7", "5", "0", ",", "0", "0", "0", "<", "g", "a", "l", "l">>, lower |-> 750000, upper |-> 1000000],
      [key |-> <<"7", "5", "0", ",", "0", "0", "0", "<", "g", "a", "l", "l", "o">>, lower |-> 750000, upper |-> 1000000],
      [key |-> <<"7", "5", "0", "0", "0", "0", "<", "g", "a", "l", "l">>, lower |-> 750000, upper |-> 1000000]
    >>

IsComma(c) == c = ","
NotComma(c) == ~IsComma(c)
NotSpace(c) == ~IsSpace(c)

\* s.replace(",", "")
WithoutCommas(s) == SelectSeq(s, NotComma)

\* re.sub(r"\s+", "", s)
WithoutSpaces(s) == SelectSeq(s, NotSpace)

\* _normalize_raw_value(raw): re.sub(r"\s+", "", raw).lower()
normalize_raw_value(raw) == LowerStr(WithoutSpaces(raw))

\* str.startswith
StartsWith(s, prefix) == Len(prefix) <= Len(s) /\ SubSeq(s, 1, Len(prefix)) = prefix

\* The value of a string of digits, read in base 10.
RECURSIVE DigitsValue(_)
DigitsValue(s) ==
    IF s = Empty THEN 0
    ELSE 10 * DigitsValue(SubSeq(s, 1, Len(s) - 1)) + DigitVal(s[Len(s)])

\* int(s): blanks around the digits are allowed, anything else raises
\* ValueError (None here).
IntOf(s) ==
    LET t == Clean(s)
    IN  IF t = Empty \/ \E k \in 1..Len(t) : ~IsDigit(t[k]) THEN None
        ELSE Some(DigitsValue(t))

\* str(n)
RECURSIVE DigitsOf(_)
DigitsOf(n) ==
    IF n < 10 THEN <<DigitChars[n + 1]>>
    ELSE DigitsOf(n \div 10) \o <<DigitChars[(n % 10) + 1]>>

\* f"{n:,}"
RECURSIVE FmtThousands(_)
FmtThousands(n) ==
    IF n < 1000 THEN DigitsOf(n)
    ELSE FmtThousands(n \div 1000)
            \o <<",", DigitChars[((n % 1000) \div 100) + 1],
                 DigitChars[((n % 100) \div 10) + 1], DigitChars[(n % 10) + 1]>>

\* Mutant: an open range is labelled like the lowest bucket.
bucket_label_open_as_zero(lower, upper) ==
    IF upper = None THEN <<"0", " ", "-", " ">> \o FmtThousands(lower)
    ELSE IF lower = 0 THEN <<"0", " ", "-", " ">> \o FmtThousands(upper[1])
    ELSE FmtThousands(lower) \o <<" ", "-", " ">> \o FmtThousands(upper[1])

\* _bucket_label(lower, upper); upper is None or Some(n)
bucket_label(lower, upper) ==
    IF upper = None THEN <<GeSign, " ">> \o FmtThousands(lower)
    ELSE IF lower = 0 THEN <<"0", " ", "-", " ">> \o FmtThousands(upper[1])
    ELSE FmtThousands(lower) \o <<" ", "-", " ">> \o FmtThousands(upper[1])

\* Length of the longest prefix of s made of digits and commas.
RECURSIVE RunLen(_)
RunLen(s) ==
    IF s # Empty /\ (IsDigit(Head(s)) \/ IsComma(Head(s))) THEN 1 + RunLen(Tail(s)) ELSE 0

\* [int(value.replace(",", "")) for value in re.findall(r"\d[\d,]*", raw_str)]
RECURSIVE Numbers(_)
Numbers(s) ==
    IF s = Empty THEN << >>
    ELSE IF IsDigit(Head(s))
         THEN LET n == RunLen(s)
              IN  <<DigitsValue(WithoutCommas(SubSeq(s, 1, n)))>>
                      \o Numbers(SubSeq(s, n + 1, Len(s)))
         ELSE Numbers(Tail(s))

\* The value parse_est_volume returns, or raised = TRUE for an exception.
Returned(gal, is_range, label) ==
    [raised |-> FALSE, est_volume_gal |-> gal, is_range |-> is_range, range_label |-> label]
Raised ==
    [raised |-> TRUE, est_volume_gal |-> None, is_range |-> FALSE, range_label |-> None]

\* re.fullmatch(r"[\d,\s]+", raw_str)
IsNumericText(s) ==
    s # Empty /\ \A k \in 1..Len(s) : IsDigit(s[k]) \/ IsComma(s[k]) \/ IsSpace(s[k])

\* The first key of the table, in dict order, that norm starts with; 0 for none.
FirstPrefixKey(norm) ==
    LET hits == {k \in 1..Len(BUCKET_MAPPINGS) : StartsWith(norm, BUCKET_MAPPINGS[k].key)}
    IN  IF hits = {} THEN 0 ELSE CHOOSE k \in hits : \A h \in hits : k <= h

\* Mutant: the lower bound of the bucket is returned as the estimate.
BucketResultLower(k) ==
    Returned(Some(BUCKET_MAPPINGS[k].lower), TRUE,
             Some(bucket_label(BUCKET_MAPPINGS[k].lower, Some(BUCKET_MAPPINGS[k].upper))))

\* return upper, True, _bucket_label(lower, upper)
BucketResult(k) ==
    Returned(Some(BUCKET_MAPPINGS[k].upper), TRUE,
             Some(bucket_label(BUCKET_MAPPINGS[k].lower, Some(BUCKET_MAPPINGS[k].upper))))

parse_est_volume(raw) ==
    IF raw = None THEN Returned(None, FALSE, None)
    ELSE LET raw_str == Clean(raw[1])
             norm == normalize_raw_value(raw_str)
             exact == {k \in 1..Len(BUCKET_MAPPINGS) : BUCKET_MAPPINGS[k].key = norm}
             numbers == Numbers(raw_str)
         IN  IF raw_str = Empty THEN Returned(None, FALSE, None)
             ELSE IF IsNumericText(raw_str)
                  THEN LET n == IntOf(WithoutCommas(raw_str))
                       IN  IF n = None THEN Raised ELSE Returned(n, FALSE, None)
             ELSE IF exact # {} THEN BucketResult(CHOOSE k \in exact : TRUE)
             ELSE IF FirstPrefixKey(norm) # 0 THEN BucketResult(FirstPrefixKey(norm))
             ELSE IF Len(numbers) >= 2
                  THEN Returned(Some(numbers[2]), TRUE,
                                Some(bucket_label(numbers[1], Some(numbers[2]))))
             ELSE IF Len(numbers) = 1
                  THEN Returned(Some(numbers[1]), TRUE, Some(bucket_label(numbers[1], None)))
             ELSE Returned(None, TRUE, Some(raw_str))

\* ---- volume strings given to parse_est_volume
\* str.upper() on the letters of the bucket keys.
Upper(c) ==
    CASE c = "g" -> "G"
      [] c = "a" -> "A"
      [] c = "l" -> "L"
      [] c = "o" -> "O"
      [] OTHER -> c

UpperStr(s) == [i \in 1..Len(s) |-> Upper(s[i])]

\* s with a blank before and after every "<".
RECURSIVE Spaced(_)
Spaced(s) ==
    IF s = Empty THEN Empty
    ELSE IF Head(s) = "<" THEN <<" ", "<", " ">> \o Spaced(Tail(s))
    ELSE <<Head(s)>> \o Spaced(Tail(s))

\* What a report writes after the part of the range that a key holds.
KeySuffixes ==
    {Empty, <<"o", "n", "s">>, <<"0">>,
     <<"o", "n", "s", " ", "<", "=", " ", "9", "9">>}

\* The strings that equal or start with a bucket key once blanks are removed
\* and case is folded.
BucketTexts ==
    UNION {{k \o x, Spaced(k) \o x, UpperStr(k) \o x, UpperStr(Spaced(k)) \o x} :
            k \in {BUCKET_MAPPINGS[j].key : j \in 1..Len(BUCKET_MAPPINGS)},
            x \in KeySuffixes}

NumericChars == {"0", "2", "5", ",", " "}

\* The strings of digits, commas and blanks of length 1..MaxNumLen.
NumericTexts == UNION {[1..n -> NumericChars] : n \in 1..MaxNumLen}

\* Strings of neither kind.
OtherTexts ==
    {<<"1", ",", "0", "0", "0", ",", "0", "0", "0", " ", "<", " ", "g", "a", "l", "l">>,
     <<"5", "0", "0", " ", "t", "o", " ", "9", "0", "0">>,
     <<"~", "5", "0">>,
     <<"u", "n", "k", "n", "o", "w", "n">>}

MixedChars == NumericChars \cup {"~", "."}

\* The strings of length 1..MaxNumLen that hold a character other than a
\* digit, a comma or a blank, and no "<".
MixedTexts ==
    {t \in UNION {[1..n -> MixedChars] : n \in 1..MaxNumLen} :
        \E k \in 1..Len(t) : t[k] \notin NumericChars}

VolumeInputs ==
    {None} \cup {Some(t) : t \in BucketTexts \cup NumericTexts \cup OtherTexts \cup MixedTexts}

NotCalled == Returned(None, FALSE, None)

\* ------------------------------------------------------------------ parser
\* Digit runs that occur in the texts.
DigitTokens == {"00213733", "7"}

\* Runs of letters and digits that occur in the texts.
AlnumTokens == {"AL0012345"} \cup DigitTokens

\* The index of the first token at or after i that is not white space.
RECURSIVE SkipSpaces(_, _)
SkipSpaces(text, i) ==
    IF i <= Len(text) /\ IsSpace(text[i]) THEN SkipSpaces(text, i + 1) ELSE i

\* <label>\s+ matches at i: the index of the token after the white space, else 0.
AfterLabel(text, i, label) ==
    IF text[i] = label /\ SkipSpaces(text, i + 1) > i + 1 THEN SkipSpaces(text, i + 1) ELSE 0

\* REGEX_PATTERNS["sso_id"] matches at i.
MatchSsoId(text, i) ==
    LET j == AfterLabel(text, i, "Assigned SSO ID")
    IN  j # 0 /\ j + 1 <= Len(text) /\ text[j] = "SSO-" /\ text[j + 1] \in DigitTokens

\* REGEX_PATTERNS["permit_number"] matches at i.
MatchPermitNumber(text, i) ==
    LET j == AfterLabel(text, i, "Permit Number")
    IN  j # 0 /\ j <= Len(text) /\ text[j] \in AlnumTokens

\* re.search for the report id: match.group(1).strip() of the leftmost
\* match, None when the key is never put into data.
SearchSsoId(text) ==
    LET at == {i \in 1..Len(text) : MatchSsoId(text, i)}
    IN  IF at = {} THEN None
        ELSE LET i == CHOOSE k \in at : \A m \in at : k <= m
             IN  Some(<<text[AfterLabel(text, i, "Assigned SSO ID") + 1]>>)

\* re.search for the permit number, stored under utility_id.
SearchPermitNumber(text) ==
    LET at == {i \in 1..Len(text) : MatchPermitNumber(text, i)}
    IN  IF at = {} THEN None
        ELSE LET i == CHOOSE k \in at : \A m \in at : k <= m
             IN  Some(<<text[AfterLabel(text, i, "Permit Number")]>>)

VolumeLabel == "Estimated Volume Discharged (in gallons)"
RangeLabel == "Estimated Volume Discharged (Range)"

\* Runs of digits and commas that occur in the volume fields, and their
\* value as float(v.replace(",", "")).
NumberTokens == {"500", "1,000", "9999", "10,000"}

NumberValue(tok) ==
    CASE tok = "500" -> 500
      [] tok = "1,000" -> 1000
      [] tok = "9999" -> 9999
      [] tok = "10,000" -> 10000

\* The tokens made of the characters of [\d,<> to] and of [\d,<=> ].
VolumeClass == NumberTokens \cup {"<", ">", " ", "to"}
RangeClass == NumberTokens \cup {"<", "=", ">", "<=", " "}

\* The index after the longest run of tokens of class that starts at i.
RECURSIVE RunEnd(_, _, _)
RunEnd(text, i, class) ==
    IF i <= Len(text) /\ text[i] \in class THEN RunEnd(text, i + 1, class) ELSE i

\* REGEX_PATTERNS["volume"] at i: None, or group(1).  \s+ takes the white
\* space after the label and the group the run of volume tokens behind it;
\* when no volume token follows, \s+ gives back white space down to a
\* blank, and the group is a run of blanks.
MatchVolume(text, i) ==
    IF text[i] # VolumeLabel THEN None
    ELSE LET k == SkipSpaces(text, i + 1)
             blanks == {j \in (i + 2)..(k - 1) : text[j] = " "}
         IN  IF k > i + 1 /\ k <= Len(text) /\ text[k] \in VolumeClass
             THEN Some(SubSeq(text, k, RunEnd(text, k, VolumeClass) - 1))
             ELSE IF blanks # {}
             THEN LET j == CHOOSE b \in blanks : \A c \in blanks : b >= c
                  IN  Some(SubSeq(text, j, RunEnd(text, j, VolumeClass) - 1))
             ELSE None

\* REGEX_PATTERNS["volume_range"] at i: None, or group(1), the number
\* after "gallons <=".
MatchVolumeRange(text, i) ==
    IF text[i] # RangeLabel THEN None
    ELSE LET m == RunEnd(text, SkipSpaces(text, i + 1), RangeClass)
             n == SkipSpaces(text, m + 1)
             q == SkipSpaces(text, n + 1)
         IN  IF /\ q <= Len(text)
                /\ text[m] = "gallons"
                /\ text[n] = "<="
                /\ text[q] \in NumberTokens
             THEN Some(<<text[q]>>)
             ELSE None

\* re.search for the volume field: match.group(1).strip() of the leftmost
\* match, None when the pattern does not match.
SearchVolume(text) ==
    LET at == {i \in 1..Len(text) : MatchVolume(text, i) # None}
    IN  IF at = {} THEN None
        ELSE Some(Clean(MatchVolume(text, CHOOSE k \in at : \A m \in at : k <= m)[1]))

\* re.search for the range field.
SearchVolumeRange(text) ==
    LET at == {i \in 1..Len(text) : MatchVolumeRange(text, i) # None}
    IN  IF at = {} THEN None
        ELSE Some(Clean(MatchVolumeRange(text, CHOOSE k \in at : \A m \in at : k <= m)[1]))

\* '<' in value or 'to' in value.lower()
IsRangeWording(value) == \E k \in 1..Len(value) : value[k] \in {"<", "to"}

\* The values of data["volume_gallons"]: the int placeholder of a range and
\* a captured string; None: the key is not in data.
RANGE_PLACEHOLDER == 9999

Placeholder == <<"int", RANGE_PLACEHOLDER>>

Captured(value) == <<"str", value>>

IsPlaceholder(v) == v[1] = "int" /\ v[2] = RANGE_PLACEHOLDER

NoVolumeData == [volume_gallons |-> None, est_volume_is_range |-> None]

\* The branch of key "volume" in the loop over REGEX_PATTERNS.
VolumeBranch(data, text) ==
    LET match == SearchVolume(text)
    IN  IF match = None THEN data
        ELSE IF IsRangeWording(match[1])
        THEN [data EXCEPT !.est_volume_is_range = Some(TRUE),
                          !.volume_gallons = Some(Placeholder)]
        ELSE [data EXCEPT !.volume_gallons = Some(Captured(match[1]))]

\* Mutant: the range value is stored whatever data holds.
VolumeRangeAlways(data, text) ==
    LET match == SearchVolumeRange(text)
    IN  IF match = None THEN data
        ELSE [data EXCEPT !.volume_gallons = Some(Captured(match[1]))]

\* The branch of key "volume_range", which comes after "volume": the value
\* is stored when data has no volume_gallons or holds the placeholder.
VolumeRangeBranch(data, text) ==
    LET match == SearchVolumeRange(text)
    IN  IF match = None THEN data
        ELSE IF data.volume_gallons = None \/ IsPlaceholder(data.volume_gallons[1])
        THEN [data EXCEPT !.volume_gallons = Some(Captured(match[1]))]
        ELSE data

\* SSOReportBase.parse_numeric on volume_gallons: None, or the float.
parse_numeric(v) ==
    IF v = None THEN None
    ELSE IF v[1][1] = "int" THEN Some(v[1][2])
    ELSE LET NotSign(tok) == tok \notin {"<", ">"}
             digits == Clean(SelectSeq(v[1][2], NotSign))
         IN  IF Len(digits) = 1 /\ digits[1] \in NumberTokens
             THEN Some(NumberValue(digits[1]))
             ELSE None

\* parse_text(text): the report id, the permit number and the volume fields
\* of the report; every field of SSOReportCreate is optional and defaults
\* to None, est_volume_is_range to False.
parse_text(text) ==
    LET data == VolumeRangeBranch(VolumeBranch(NoVolumeData, text), text)
    IN  [sso_id |-> SearchSsoId(text),
         utility_id |-> SearchPermitNumber(text),
         volume_gallons |-> parse_numeric(data.volume_gallons),
         est_volume_is_range |->
            IF data.est_volume_is_range = None THEN FALSE ELSE data.est_volume_is_range[1]]

RECURSIVE Concat(_)
Concat(texts) == IF texts = << >> THEN Empty ELSE Head(texts) \o Concat(Tail(texts))

\* "\n".join(texts)
RECURSIVE JoinNewline(_)
JoinNewline(texts) ==
    IF texts = << >> THEN Empty
    ELSE IF Len(texts) = 1 THEN Head(texts)
    ELSE Head(texts) \o <<"\n">> \o JoinNewline(Tail(texts))

\* _ocr_pdf(file_path): the recognised page texts joined, "" on an exception.
ocr_pdf(doc) == IF doc.ocr_ok THEN JoinNewline(doc.images) ELSE Empty

\* extract_text(file_path): the text layer of the pages, or the OCR text when
\* pdfplumber raises or the text layer is blank.
extract_text(doc) ==
    IF doc.opens /\ Clean(Concat(doc.pages)) # Empty THEN Concat(doc.pages)
    ELSE ocr_pdf(doc)

\* process_file(file_path): None, or the parsed report.  The except branch
\* is not taken: parse_text raises for no text, its values are strings and
\* every field of the model is optional.
process_file(doc) ==
    IF extract_text(doc) = Empty THEN None ELSE Some(parse_text(extract_text(doc)))

\* What page.extract_text(layout=True) or "" and image_to_string return for a page.
PageTexts ==
    { Empty, <<" ">>, <<"\n">>,
      <<"Assigned SSO ID", " ", "SSO-", "00213733", "\n">>,
      <<"Permit Number", "\n", " ", "AL0012345", " ">>,
      <<"Assigned SSO ID", "SSO-", "7">> }

PageSeqs == UNION {[1..n -> PageTexts] : n \in 0..MaxPages}

\* A document: whether pdfplumber reads it, its text layer per page, whether
\* pdf2image and tesseract run, and the text recognised per page image.
Pdfs == [opens : BOOLEAN, pages : PageSeqs, ocr_ok : BOOLEAN, images : PageSeqs]

NoPdf == [opens |-> FALSE, pages |-> << >>, ocr_ok |-> FALSE, images |-> << >>]

\* What the form shows after the label of the volume field.
VolumeFields ==
    { <<" ", "500">>, <<" ", "1,000">>, <<" ", "9999">>, <<"\n", " ", "500">>,
      <<" ", "<", " ", "1,000">>, <<" ", "1,000", " ", "to", " ", "10,000">>,
      <<" ", ">", "500">>, <<" ", " ">>, <<" ">>, Empty }

\* What the form shows after the label of the range field.
RangeFields ==
    { <<" ", "1,000", " ", "<", " ", "gallons", " ", "<=", " ", "10,000">>,
      <<"\n", "gallons", "<=", "500">>,
      <<" ", "gallons">> }

\* The lines of a report text: an id line or none, and the volume line and
\* the range line, each present or not, in either order.
ReportTexts ==
    LET ids == {Empty, <<"Assigned SSO ID", " ", "SSO-", "7", "\n">>}
        vol == {Empty} \cup {<<VolumeLabel>> \o f \o <<"\n">> : f \in VolumeFields}
        rng == {Empty} \cup {<<RangeLabel>> \o f \o <<"\n">> : f \in RangeFields}
    IN  {i \o v \o r : i \in ids, v \in vol, r \in rng}
            \cup {i \o r \o v : i \in ids, v \in vol, r \in rng}

\* ------------------------------------------------------------------ sso_schema
\* Values of a raw mapping: None, a str (a sequence of characters), a number,
\* or under the date keys a number counted in thousands (epoch seconds and
\* milliseconds exceed the integers of the checker).  Datetimes are epoch
\* seconds counted in thousands, in UTC.
Str(s) == <<"str", s>>
Num(n) == <<"num", n>>
Kilo(n) == <<"kilo", n>>
IsStr(v) == v # None /\ v[1] = "str"
IsNum(v) == v # None /\ v[1] = "num"
IsKilo(v) == v # None /\ v[1] = "kilo"

\* raw_dict.get(key)
Get(d, key) == IF key \in DOMAIN d THEN d[key] ELSE None

\* record[key] = value
DictSet(d, key, value) == [k \in DOMAIN d \cup {key} |-> IF k = key THEN value ELSE d[k]]

\* a or b
Truthy(v) == v # None /\ v # Str(Empty) /\ v # Num(0) /\ v # Kilo(0)
Or(a, b) == IF Truthy(a) THEN a ELSE b

\* str(n)
StrOfInt(n) == IF n < 0 THEN <<"-">> \o DigitsOf(-n) ELSE DigitsOf(n)

\* _coerce_str(value)
coerce_str(value) ==
    IF value = None THEN None
    ELSE IF IsStr(value) THEN Some(value[2])
    ELSE IF IsNum(value) THEN Some(StrOfInt(value[2]))
    ELSE Some(StrOfInt(value[2]) \o <<"0", "0", "0">>)

\* str.isdigit()
IsDigits(s) == s # Empty /\ \A k \in 1..Len(s) : IsDigit(s[k])

\* float(s) of a string: blanks around, a sign and digits give the number,
\* the other strings of the inputs raise ValueError (None here).
FloatOfStr(s) ==
    LET t == Clean(s)
        body == IF t # Empty /\ Head(t) \in {"-", "+"} THEN Tail(t) ELSE t
    IN  IF ~IsDigits(body) THEN None
        ELSE IF Head(t) = "-" THEN Some(0 - DigitsValue(body))
        ELSE Some(DigitsValue(body))

\* _coerce_float(value)
coerce_float(value) ==
    IF value = None THEN None
    ELSE IF IsStr(value) THEN FloatOfStr(value[2])
    ELSE IF IsNum(value) THEN Some(value[2])
    ELSE Some(1000 * value[2])

\* 10_000_000_000, in thousands.
MsThreshold == 10000000

\* The timestamps of datetime.min and datetime.max, in thousands.
MinTimestamp == -62135596
MaxTimestamp == 253402300

\* datetime.fromtimestamp(value), None for OverflowError, OSError, ValueError.
fromtimestamp(k) == IF k >= MinTimestamp /\ k <= MaxTimestamp THEN Some(k) ELSE None

IsLeap(y) == (y % 4 = 0 /\ y % 100 # 0) \/ y % 400 = 0

DaysInMonth(y, m) ==
    IF m = 2 THEN (IF IsLeap(y) THEN 29 ELSE 28)
    ELSE IF m \in {4, 6, 9, 11} THEN 30 ELSE 31

\* Days from 1970-01-01 to the date y-m-d.
DaysFromCivil(y, m, d) ==
    LET yy == IF m <= 2 THEN y - 1 ELSE y
        era == yy \div 400
        yoe == yy - era * 400
        mp == IF m > 2 THEN m - 3 ELSE m + 9
        doy == (153 * mp + 2) \div 5 + d - 1
        doe == yoe * 365 + yoe \div 4 - yoe \div 100 + doy
    IN  era * 146097 + doe - 719468

\* strptime(s, "%Y-%m-%d") on strings with padded fields: the day number, or
\* None for ValueError.
DateOf(s) ==
    IF Len(s) = 10 /\ s[5] = "-" /\ s[8] = "-" /\ IsDigits(SubSeq(s, 1, 4))
          /\ IsDigits(SubSeq(s, 6, 7)) /\ IsDigits(SubSeq(s, 9, 10))
    THEN LET y == DigitsValue(SubSeq(s, 1, 4))
             m == DigitsValue(SubSeq(s, 6, 7))
             d == DigitsValue(SubSeq(s, 9, 10))
         IN  IF y >= 1 /\ m \in 1..12 /\ d >= 1 /\ d <= DaysInMonth(y, m)
             THEN Some(DaysFromCivil(y, m, d)) ELSE None
    ELSE None

\* "%H:%M:%S" on strings with padded fields: the second of the day, or None.
TimeOf(s) ==
    IF Len(s) = 8 /\ s[3] = ":" /\ s[6] = ":" /\ IsDigits(SubSeq(s, 1, 2))
          /\ IsDigits(SubSeq(s, 4, 5)) /\ IsDigits(SubSeq(s, 7, 8))
    THEN LET h == DigitsValue(SubSeq(s, 1, 2))
             m == DigitsValue(SubSeq(s, 4, 5))
             sec == DigitsValue(SubSeq(s, 7, 8))
         IN  IF h < 24 /\ m < 60 /\ sec < 60 THEN Some(3600 * h + 60 * m + sec) ELSE None
    ELSE None

\* The datetime of a day number and a second of the day.
DateTime(days, sec) == Some((days * 86400 + sec) \div 1000)

\* The formats tried on a string that is not all digits: "%Y-%m-%d",
\* "%Y-%m-%d %H:%M:%S", then datetime.fromisoformat (any separator).
StrToDatetime(s) ==
    IF DateOf(s) # None THEN DateTime(DateOf(s)[1], 0)
    ELSE IF Len(s) = 19 /\ DateOf(SubSeq(s, 1, 10)) # None /\ TimeOf(SubSeq(s, 12, 19)) # None
         THEN DateTime(DateOf(SubSeq(s, 1, 10))[1], TimeOf(SubSeq(s, 12, 19))[1])
    ELSE None

\* The branch of _parse_datetime for int and float, value counted in thousands.
NumToDatetime(k) == fromtimestamp(IF k > MsThreshold THEN k \div 1000 ELSE k)

\* _parse_datetime(value)
parse_datetime(value) ==
    IF value = None THEN None
    ELSE IF IsKilo(value) THEN NumToDatetime(value[2])
    ELSE IF IsNum(value) THEN NumToDatetime(value[2] \div 1000)
    ELSE IF IsDigits(value[2]) THEN NumToDatetime(DigitsValue(value[2]) \div 1000)
    ELSE StrToDatetime(value[2])

\* enrich_est_volume_fields(record), given what parse_est_volume returned.
enrich_est_volume_fields(d, parsed) ==
    DictSet(
        DictSet(
            DictSet(d, "est_volume_gal",
                    IF parsed.est_volume_gal = None THEN None
                    ELSE Num(parsed.est_volume_gal[1])),
            "est_volume_is_range", Str(IF parsed.is_range THEN <<"Y">> ELSE <<"N">>)),
        "est_volume_range_label",
        IF parsed.range_label = None THEN None ELSE Str(parsed.range_label[1]))

\* The record normalize_sso_record returns, or raised = TRUE for an
\* exception.  Of the fields that are _coerce_str of one key, sso_id stands
\* for utility_id, sewer_system, county and cause.
SSORecord(fields, raw_dict) ==
    [raised |-> FALSE] @@ fields @@ [raw |-> raw_dict]

RaisedRecord ==
    [raised |-> TRUE, sso_id |-> None, utility_name |-> None, date_sso_began |-> None,
     date_sso_stopped |-> None, volume_gallons |-> None, est_volume |-> None,
     est_volume_gal |-> None, est_volume_is_range |-> FALSE,
     est_volume_range_label |-> None, x |-> None, y |-> None, raw |-> << >>]

\* normalize_sso_record(raw).  parse_est_volume is called twice on the same
\* value, by enrich_est_volume_fields and by the function itself, outside any
\* try.
normalize_sso_record(raw) ==
    LET parsed == parse_est_volume(coerce_str(Get(raw, "est_volume")))
    IN  IF parsed.raised THEN RaisedRecord
        ELSE
        LET raw_dict == enrich_est_volume_fields(raw, parsed)
            gal == coerce_float(Get(raw_dict, "est_volume_gal"))
            est_volume_gal == IF gal # None THEN gal ELSE parsed.est_volume_gal
            raw_is_range == Get(raw_dict, "est_volume_is_range")
            is_range == IF IsStr(raw_is_range) THEN UpperStr(raw_is_range[2]) = <<"Y">>
                        ELSE IF raw_is_range # None THEN Truthy(raw_is_range)
                        ELSE parsed.is_range
            volume == coerce_float(Get(raw_dict, "volume_gallons"))
        IN  SSORecord(
              [sso_id |-> coerce_str(Get(raw_dict, "sso_id")),
               utility_name |->
                   coerce_str(Or(Get(raw_dict, "permittee"), Get(raw_dict, "utility_name"))),
               date_sso_began |-> parse_datetime(Get(raw_dict, "date_sso_began")),
               date_sso_stopped |-> parse_datetime(Get(raw_dict, "date_sso_stopped")),
               volume_gallons |-> IF volume = None THEN est_volume_gal ELSE volume,
               est_volume |-> coerce_str(Get(raw_dict, "est_volume")),
               est_volume_gal |-> est_volume_gal,
               est_volume_is_range |-> is_range,
               est_volume_range_label |-> parsed.range_label,
               x |-> coerce_float(Get(raw_dict, "x")),
               y |-> coerce_float(Get(raw_dict, "y"))],
              raw_dict)

\* ---- sso_analytics
\* A QAIssue; extra is left out.
QAIssue(severity, code, rec) == [severity |-> severity, code |-> code, sso_id |-> rec.sso_id]

\* sub in s
Contains(s, sub) ==
    \E i \in 1..(Len(s) - Len(sub) + 1) : SubSeq(s, i, i + Len(sub) - 1) = sub

\* _detect_volume_range_text(raw) returns a mapping, not None.
detect_volume_range_text(raw) ==
    \E key \in DOMAIN raw :
        /\ IsStr(raw[key])
        /\ LET value_lower == LowerStr(raw[key][2])
           IN  /\ Contains(value_lower, <<"g", "a", "l">>)
               /\ \E i \in 1..Len(value_lower) : value_lower[i] \in {"<", ">"}
               /\ \E i \in 1..Len(value_lower) : IsDigit(value_lower[i])

\* The issues run_basic_qa appends for one record.
RecordIssues(rec) ==
    (IF rec.volume_gallons # None /\ rec.volume_gallons[1] < 0
        THEN <<QAIssue("error", "NEGATIVE_VOLUME", rec)>>
     ELSE IF rec.volume_gallons # None /\ rec.volume_gallons[1] = 0
        THEN <<QAIssue("warning", "ZERO_VOLUME", rec)>>
     ELSE << >>)
    \o (IF rec.date_sso_began = None
           THEN <<QAIssue("warning", "MISSING_START_DATE", rec)>> ELSE << >>)
    \o (IF rec.utility_name = None \/ rec.utility_name = Some(Empty)
           THEN <<QAIssue("warning", "MISSING_UTILITY", rec)>> ELSE << >>)
    \o (IF rec.x = None \/ rec.y = None
           THEN <<QAIssue("warning", "MISSING_GEOMETRY", rec)>> ELSE << >>)
    \o (IF detect_volume_range_text(rec.raw)
           THEN <<QAIssue("info", "VOLUME_RANGE_TEXT", rec)>> ELSE << >>)

\* run_basic_qa(records)
RECURSIVE run_basic_qa(_)
run_basic_qa(records) ==
    IF records = << >> THEN << >>
    ELSE RecordIssues(Head(records)) \o run_basic_qa(Tail(records))

\* ---- raw mappings given to normalize_sso_record
\* The key is not in the mapping.
Absent == <<"absent">>

EstVolumeValues ==
    {Absent, Num(12), Str(<<"5", "0", "0">>), Str(<<"2", "5", " ", "0", "0", "0">>), Str(<<"1", ",", "0", "0", "0", " ", "<", "=", " ", "g", "a", "l", "l", "o", "n", "s", " ", "<", " ", "1", "0", ",", "0", "0", "0">>), Str(<<"u", "n", "k", "n", "o", "w", "n">>)}

EstVolumeGalValues == {Absent, Str(<<"7">>)}

VolumeGallonsValues == {Absent, Num(0), Str(<<"4", "2">>), Str(<<"-", "5">>), Str(<<"a", "b", "c">>)}

BeganValues ==
    {Absent, Kilo(1700000000), Str(<<"2", "0", "2", "3", "-", "1", "1", "-", "0", "2", " ", "0", "5", ":", "0", "0", ":", "0", "0">>), Str(<<"g", "a", "r", "b", "a", "g", "e">>)}

StoppedValues ==
    {Absent, Kilo(1700000), Str(<<"2", "0", "2", "3", "-", "1", "1", "-", "0", "1">>),
     Str(<<"2", "0", "2", "3", "-", "1", "1", "-", "0", "1", "T", "0", "0", ":", "0", "0", ":", "0", "0">>),
     Str(<<"1", "7", "0", "0", "0", "0", "0", "0", "0", "0">>)}

XValues == {Absent, Str(<<"-", "8", "6">>), Str(<<"a", "b", "c">>)}

YValues == {Absent, Num(32)}

PermitteeValues == {Absent, Str(<<"U", "t", "i", "l", "i", "t", "y">>)}

UnexpectedValues == {Absent, Str(<<"k", "e", "e", "p", " ", "m", "e">>)}

\* The mapping that holds the keys whose value is not Absent.
Mapping(full) == [key \in {k \in DOMAIN full : full[k] # Absent} |-> full[key]]

IsRaw(d) ==
    \E ev \in EstVolumeValues, eg \in EstVolumeGalValues, vg \in VolumeGallonsValues :
    \E began \in BeganValues, stopped \in StoppedValues, xv \in XValues, yv \in YValues :
    \E pm \in PermitteeValues, un \in UnexpectedValues :
        d = Mapping([sso_id |-> Str(<<"1", "2", "3">>), est_volume |-> ev, est_volume_gal |-> eg,
                     volume_gallons |-> vg, date_sso_began |-> began,
                     date_sso_stopped |-> stopped, x |-> xv, y |-> yv, permittee |-> pm,
                     unexpected |-> un])

\* ------------------------------------------------------------------ sso_transform
\* Names are sequences of words; a comma is written at the end of its word.
\* PERMITTEE_MAP, in dict order.
PERMITTEE_MAP ==
    <<[k |-> <<"alsi9902013">>,
       v |-> <<"Baldwin", "County", "Sewer", "Service">>],
      [k |-> <<"al0049859">>,
       v |-> <<"Baldwin", "County", "Sewer", "Service">>],
      [k |-> <<"south", "alabama", "utilities", "services,", "inc.">>,
       v |-> <<"Baldwin", "County", "Sewer", "Service">>],
      [k |-> <<"south", "alabama", "utility", "service,", "inc", "wwtp">>,
       v |-> <<"Baldwin", "County", "Sewer", "Service">>],
      [k |-> <<"south", "alabama", "utilities">>,
       v |-> <<"Baldwin", "County", "Sewer", "Service">>],
      [k |-> <<"baldwin", "county", "sewer", "services">>,
       v |-> <<"Baldwin", "County", "Sewer", "Service">>],
      [k |-> <<"baldwin", "county", "sewer", "service,", "llc">>,
       v |-> <<"Baldwin", "County", "Sewer", "Service">>],
      [k |-> <<"board", "of", "water", "and", "sewer", "commissioners", "of", "the", "city", "of", "mobile">>,
       v |-> <<"MAWSS">>],
      [k |-> <<"board", "of", "water", "and", "sewer", "commissioners", "of", "the", "city", "of", "mobile", "alabama">>,
       v |-> <<"MAWSS">>],
      [k |-> <<"board", "of", "water", "and", "sewer", "commissioners", "of", "the", "city", "of", "mobile", "-", "prichard">>,
       v |-> <<"MAWSS">>],
      [k |-> <<"mobile", "area", "water", "and", "sewer", "system">>,
       v |-> <<"MAWSS">>],
      [k |-> <<"mobile", "area", "water", "&", "sewer">>,
       v |-> <<"MAWSS">>],
      [k |-> <<"mobile", "area", "water", "and", "sewer">>,
       v |-> <<"MAWSS">>],
      [k |-> <<"mobile", "water", "and", "sewer">>,
       v |-> <<"MAWSS">>],
      [k |-> <<"the", "board", "of", "water", "and", "sewer", "commissioners", "of", "the", "city", "of", "mobile">>,
       v |-> <<"MAWSS">>],
      [k |-> <<"the", "water", "works", "&", "sewer", "board", "of", "the", "city", "of", "anniston">>,
       v |-> <<"Utilities", "of", "Anniston">>],
      [k |-> <<"the", "water", "works", "and", "sewer", "board", "of", "the", "city", "of", "anniston">>,
       v |-> <<"Utilities", "of", "Anniston">>],
      [k |-> <<"the", "water", "works", "&", "sewer", "board", "of", "the", "city", "of", "gadsden">>,
       v |-> <<"Utilities", "of", "Gadsden">>]>>

\* The prefix patterns of simplify_permittee_name in list order, each the set
\* of word sequences it matches once case is folded.
PermitteePatterns ==
    <<{<<"the", "utilities", "board", "of", "the", "city", "of">>},
      {<<"the", "utilities", "board", "of", "the", "town", "of">>},
      {<<"the", "water", "works", "and", "sewer", "board", "of", "the", "city", "of">>, <<"the", "water", "works", "&", "sewer", "board", "of", "the", "city", "of">>},
      {<<"the", "water", "works", "and", "sanitary", "sewer", "board", "of">>},
      {<<"utilities", "board", "of", "the", "city", "of">>},
      {<<"board", "of", "water", "and", "sewer", "commissioners", "of", "the", "city", "of">>},
      {<<"water", "works", "and", "sewer", "board", "of", "the", "city", "of">>, <<"water", "works", "&", "sewer", "board", "of", "the", "city", "of">>},
      {<<"utilities", "board", "of", "the", "town", "of">>},
      {<<"utilities", "board", "of">>},
      {<<"water", "works", "and", "sewer", "board", "of">>, <<"water", "works", "&", "sewer", "board", "of">>},
      {<<"city", "of">>},
      {<<"town", "of">>},
      {<<"village", "of">>},
      {<<"the", "utilities", "board", "of">>}>>

\* The two-letter state codes that occur in the names.
StateCodes == {"AL"}

\* The words that are written with a comma at their end, without and with it.
CommaWords ==
    <<[w |-> "Foley", c |-> "Foley,"],
      [w |-> "Utilities", c |-> "Utilities,"],
      [w |-> "Bay", c |-> "Bay,"],
      [w |-> "Anniston", c |-> "Anniston,"],
      [w |-> "Mobile", c |-> "Mobile,"],
      [w |-> "System", c |-> "System,"],
      [w |-> "Service", c |-> "Service,"],
      [w |-> "Sewer", c |-> "Sewer,"],
      [w |-> "(BCSS)", c |-> "(BCSS),"]>>

EndsWithComma(tok) == \E j \in 1..Len(CommaWords) : CommaWords[j].c = tok
WithoutComma(tok) == CommaWords[CHOOSE j \in 1..Len(CommaWords) : CommaWords[j].c = tok].w
WithComma(tok) == CommaWords[CHOOSE j \in 1..Len(CommaWords) : CommaWords[j].w = tok].c

\* re.sub(r",\s*[A-Z]{2}$", "", cleaned)
StripStateSuffix(s) ==
    IF Len(s) >= 2 /\ s[Len(s)] \in StateCodes /\ EndsWithComma(s[Len(s) - 1])
    THEN SubSeq(s, 1, Len(s) - 2) \o <<WithoutComma(s[Len(s) - 1])>>
    ELSE s

\* pattern k matches at the head of cleaned: the number of words matched,
\* 0 for no match (\s+ needs text after the prefix).
PatternLen(k, cleaned) ==
    LET hits == {alt \in PermitteePatterns[k] :
                    Len(cleaned) > Len(alt) /\ LowerStr(SubSeq(cleaned, 1, Len(alt))) = alt}
    IN  IF hits = {} THEN 0 ELSE Len(CHOOSE alt \in hits : TRUE)

\* The first pattern of the list that matches, 0 for none.
FirstPattern(cleaned) ==
    LET hits == {k \in 1..Len(PermitteePatterns) : PatternLen(k, cleaned) > 0}
    IN  IF hits = {} THEN 0 ELSE CHOOSE k \in hits : \A h \in hits : k <= h

\* re.sub(r"^[Tt]he\s+", "", entity_name)
WithoutThe(s) == IF Len(s) >= 2 /\ s[1] \in {"The", "the"} THEN Tail(s) ELSE s

\* The value returned when pattern k matches.
EntityName(k, cleaned) ==
    LET entity_name == WithoutThe(SubSeq(cleaned, PatternLen(k, cleaned) + 1, Len(cleaned)))
    IN  IF Lower(entity_name[Len(entity_name)]) # "utilities"
        THEN <<"Utilities", "of">> \o entity_name
        ELSE entity_name

\* The keys of PERMITTEE_MAP that equal the folded name.
MapHits(name) == {j \in 1..Len(PERMITTEE_MAP) : PERMITTEE_MAP[j].k = LowerStr(Clean(name))}

simplify_permittee_name(name) ==
    IF name = Empty THEN name
    ELSE IF MapHits(name) # {} THEN PERMITTEE_MAP[CHOOSE j \in MapHits(name) : TRUE].v
    ELSE LET cleaned == StripStateSuffix(Clean(name))
         IN  IF Contains(cleaned, <<"Mobile", "Area", "Water", "and", "Sewer", "System">>)
             THEN <<"MAWSS">>
             ELSE IF FirstPattern(cleaned) # 0 THEN EntityName(FirstPattern(cleaned), cleaned)
             ELSE cleaned

\* ---- normalize_sso_record of sso_transform.py: the utility name
\* The keys of PERMITTEE_MAP that equal s as it is.
MapKeys(s) == {j \in 1..Len(PERMITTEE_MAP) : PERMITTEE_MAP[j].k = s}

\* utility_name of the record: the alias of utility_id when utility_id is a
\* key of PERMITTEE_MAP, else the alias of utility_name.lower() when that
\* is a key, else utility_name; then simplify_permittee_name of it.
\* simplify_permittee_name(None) is None.  The raw record has no key
\* "utility_name", so an empty permittee gives the name None.
transform_utility_name(utility_id, permittee) ==
    LET name == IF permittee = Some(Empty) THEN None ELSE permittee
        aliased ==
            IF utility_id # None /\ utility_id[1] # Empty /\ MapKeys(utility_id[1]) # {}
            THEN Some(PERMITTEE_MAP[CHOOSE j \in MapKeys(utility_id[1]) : TRUE].v)
            ELSE IF name # None /\ name[1] # Empty /\ MapKeys(LowerStr(name[1])) # {}
            THEN Some(PERMITTEE_MAP[CHOOSE j \in MapKeys(LowerStr(name[1])) : TRUE].v)
            ELSE name
    IN  IF aliased = None THEN None ELSE Some(simplify_permittee_name(aliased[1]))

\* The values of raw["permit_no"]: None, "", keys of PERMITTEE_MAP in
\* several letter cases, and a permit id that is no key.
PermitNumbers ==
    {None, Some(Empty), Some(<<"al0049859">>), Some(<<"AL0049859">>), Some(<<"Al0049859">>),
     Some(<<"alsi9902013">>), Some(<<"ALSI9902013">>), Some(<<"AL0012345">>)}

\* The values of raw["permittee"]: None, "", keys of PERMITTEE_MAP in
\* several letter cases, and names that are no key.
AliasNames ==
    {None, Some(Empty),
     Some(<<"South", "Alabama", "Utilities">>),
     Some(<<"SOUTH", "ALABAMA", "UTILITIES">>),
     Some(<<"south", "alabama", "utilities">>),
     Some(<<" ", "South", "Alabama", "Utilities">>),
     Some(<<"Mobile", "Water", "And", "Sewer">>),
     Some(<<"mobile", "water", "and", "sewer">>),
     Some(<<"Baldwin", "County", "Sewer", "Service,", "LLC">>),
     Some(<<"AL0049859">>),
     Some(<<"City", "of", "Foley">>),
     Some(<<"Daphne", "Utilities">>),
     Some(<<"Fairhope">>)}

\* ---- names given to simplify_permittee_name
NamePrefixes ==
    {Empty,
     <<"City", "of">>,
     <<"Town", "of">>,
     <<"Village", "of">>,
     <<"CITY", "OF">>,
     <<"The", "Utilities", "Board", "of", "the", "City", "of">>,
     <<"The", "Utilities", "Board", "of">>,
     <<"Utilities", "Board", "of">>,
     <<"The", "Water", "Works", "and", "Sewer", "Board", "of", "the", "City", "of">>,
     <<"The", "Water", "Works", "&", "Sewer", "Board", "of", "the", "City", "of">>,
     <<"Board", "of", "Water", "and", "Sewer", "Commissioners", "of", "the", "City", "of">>,
     <<"Water", "Works", "and", "Sewer", "Board", "of">>}

NameEntities ==
    {<<"Foley">>,
     <<"Daphne", "Utilities">>,
     <<"the", "Bay">>,
     <<"Anniston">>,
     <<"Mobile">>,
     <<"Mobile", "Area", "Water", "and", "Sewer", "System">>,
     <<"Mobile", "Water", "and", "Sewer">>,
     <<"Baldwin", "County", "Sewer", "Service">>}

\* s followed by the state suffix ", AL".
WithState(s) == SubSeq(s, 1, Len(s) - 1) \o <<WithComma(s[Len(s)]), "AL">>

\* A prefix and an entity, then nothing, an acronym in parentheses, a state
\* suffix, or both.
PermitteeNames ==
    {Empty, <<" ">>} \cup
    UNION {{pre \o ent, pre \o ent \o <<"(BCSS)">>, WithState(pre \o ent),
            WithState(pre \o ent \o <<"(BCSS)">>)} :
           pre \in NamePrefixes, ent \in NameEntities}

\* ------------------------------------------------------------------ sso_client
\* frontend/scripts/sso_client.py: SSOClient.fetch_ssos pages through the
\* query endpoint of an ArcGIS feature layer.  The layer holds count records
\* for the query, numbered 1..count in server order, puts at most cap
\* features in one response, and its metadata reports supportsPagination
\* and, when the key is present, maxRecordCount.
DEFAULT_PAGE_SIZE == 2000

Min(a, b) == IF a <= b THEN a ELSE b

Max(a, b) == IF a >= b THEN a ELSE b

NoLayer == [count |-> 0, cap |-> 0, supportsPagination |-> FALSE, maxRecordCount |-> None]

\* The layers: a maxRecordCount the metadata reports is the server's cap.
Layers ==
    { l \in [count : 0..MaxRecords, cap : 1..MaxPageCap,
             supportsPagination : BOOLEAN,
             maxRecordCount : {None} \cup {Some(n) : n \in 1..MaxPageCap}] :
        l.maxRecordCount \in {None, Some(l.cap)} }

\* The values of the argument limit.
Limits == {None} \cup {Some(n) : n \in 0..MaxRecords}

\* The values of extra_params["resultRecordCount"]; None: the key is absent.
ResultRecordCounts == {None} \cup {Some(n) : n \in 1..MaxPageCap}

\* The records the server holds for the query, in server order.
Features(l) == [i \in 1..l.count |-> i]

\* data["features"] of the response to one query request: with the
\* pagination parameters the features from resultOffset on, at most
\* resultRecordCount and at most cap of them; without them the first cap.
ServerPage(l, page_params) ==
    LET from == IF page_params = None THEN 0 ELSE page_params[1].resultOffset
        most == IF page_params = None THEN l.cap
                ELSE Min(page_params[1].resultRecordCount, l.cap)
    IN  SubSeq(Features(l), from + 1, Min(l.count, from + most))

\* supports_pagination, max_record_count = self._load_layer_metadata()
load_layer_metadata(l) ==
    [supports_pagination |-> l.supportsPagination,
     max_record_count    |-> l.maxRecordCount]

\* page_size = int(params.pop("resultRecordCount", DEFAULT_PAGE_SIZE)),
\* lowered to max_record_count when the metadata reports one.
PageSize(count_param, max_record_count) ==
    LET asked == IF count_param = None THEN DEFAULT_PAGE_SIZE ELSE count_param[1]
    IN  IF max_record_count # None /\ max_record_count[1] # 0
        THEN Min(asked, max_record_count[1]) ELSE asked

\* The parameters of one page request; None: no pagination parameters.
PageParams(supports_pagination, off, size) ==
    IF supports_pagination
    THEN Some([resultOffset |-> off, resultRecordCount |-> size])
    ELSE None

\* records[:lim]
Slice(recs, lim) == SubSeq(recs, 1, Min(Len(recs), Max(lim, 0)))

\* The loop over feature_list without the limit test: every feature is
\* appended and the loop never returns.
AppendAll(recs, feature_list, lim) ==
    [records |-> recs \o feature_list, returned |-> FALSE]

\* for feature in feature_list: records.append(attrs), returning
\* records[:limit] as soon as limit is not None and len(records) >= limit.
AppendFeatures(recs, feature_list, lim) ==
    LET hits == { k \in 1..Len(feature_list) : lim # None /\ Len(recs) + k >= lim[1] }
    IN  IF hits = {}
        THEN [records |-> recs \o feature_list, returned |-> FALSE]
        ELSE LET k == CHOOSE k \in hits : \A j \in hits : k <= j
             IN  [records  |-> Slice(recs \o SubSeq(feature_list, 1, k), lim[1]),
                  returned |-> TRUE]

\* ------------------------------------------------------------------ parse_only
\* parse_only.py: main() walks PDF_DIR like SSO_Parse.main and keeps one row
\* per report id in the dict by_sso while it reads the documents.

\* row = process_pdf(file_path), with sso_id and _ts still in the row.
parse_only_process_pdf(path, doc) ==
    [sso_id |-> doc.sso_id,
     permittee |-> doc.permittee,
     start |-> doc.start,
     volume |-> doc.volume,
     receiving_water |-> doc.receiving_water,
     file_name |-> <<path[2]>>,
     ts |-> extract_submission_ts(doc.footer)]

\* The stored row: the row without sso_id, with _ts when stored under an id.
StoredRow(row, ts) == [row EXCEPT !.sso_id = Empty, !.ts = ts]

\* Position of key in by_sso, 0 when absent.
BySsoPos(d, key) ==
    IF \E j \in 1..Len(d) : d[j].key = key
    THEN CHOOSE j \in 1..Len(d) : d[j].key = key
    ELSE 0

\* by_sso[key] = row: a new key goes last, an old key keeps its place.
BySsoPut(d, key, row) ==
    LET j == BySsoPos(d, key)
    IN  IF j = 0 THEN Append(d, [key |-> key, row |-> row])
        ELSE [d EXCEPT ![j] = [key |-> key, row |-> row]]

\* The body of the try block for one row: a row without id is stored under
\* "__noid__" + filename; a row with an id is stored when the id is new, or
\* when ts, the stored _ts are both set and ts is the later one.
BatchStep(d, row) ==
    LET sso_id == row.sso_id
        ts     == row.ts
    IN  IF sso_id = Empty
        THEN BySsoPut(d, <<NoIdPrefix>> \o row.file_name, StoredRow(row, Empty))
        ELSE LET j == BySsoPos(d, sso_id)
             IN  IF j = 0 THEN BySsoPut(d, sso_id, StoredRow(row, ts))
                 ELSE IF ts # Empty /\ d[j].row.ts # Empty /\ ts[1] > d[j].row.ts[1]
                      THEN BySsoPut(d, sso_id, StoredRow(row, ts))
                      ELSE d

\* ------------------------------------------------------------------ SSODownloadOnly
\* SSODownloadOnly.py: scrape_links reads the rows of the result table of the
\* eFile site and names a file for each document; download_pdfs saves the
\* documents that have no file yet.  A row is its (facility, date) pair, key,
\* and whether its link is a javascript: href; the document of a row is
\* the index of the row in the listing.

\* The (facility_safe, date_safe) pairs of the listings.
RowKeys == {"Foley_01-05-2023", "Daphne_02-01-2023"}

\* The rows of the result table.
TableRows == [key : RowKeys, javascript : BOOLEAN]

\* The listings: up to MaxRows rows.
Listings == UNION {[1..n -> TableRows] : n \in 0..MaxRows}

\* f"{base_file_name}.pdf" for count 0, f"{base_file_name}_{count}.pdf" else.
FileName(key, count) == <<key, count>>

\* The names of the files of DOWNLOAD_DIR.
FileNames(files) == {f.file_name : f \in files}

\* while os.path.exists(os.path.join(DOWNLOAD_DIR, file_name)): count += 1
RECURSIVE FreeCount(_, _, _)
FreeCount(files, key, count) ==
    IF FileName(key, count) \in FileNames(files)
    THEN FreeCount(files, key, count + 1)
    ELSE count

\* The loop over the rows from row i on, with the dict filename_counters.
RECURSIVE ScrapeRows(_, _, _, _)
ScrapeRows(table, i, files, filename_counters) ==
    IF i > Len(table) THEN << >>
    ELSE IF table[i].javascript THEN ScrapeRows(table, i + 1, files, filename_counters)
    ELSE LET key == table[i].key
             count == FreeCount(files, key, filename_counters[key])
         IN  <<[url |-> i, file_name |-> FileName(key, count)]>>
                \o ScrapeRows(table, i + 1, files,
                              [filename_counters EXCEPT ![key] = count + 1])

\* scrape_links(): one DocLink per row whose link is no javascript: href.
scrape_links(table, files) == ScrapeRows(table, 1, files, [k \in RowKeys |-> 0])

\* ------------------------------------------------------------------ main
InitMain ==
    /\ pdf_paths = << >>
    /\ rows = << >>
    /\ missing_crit = 0
    /\ by_key = << >>
    /\ deduped_rows = << >>
    /\ csv = << >>
    /\ summary = [total |-> 0, kept |-> 0, missing_crit |-> 0]
    /\ pc = "walk"

\* No call of parse_est_volume is under way.
VolumeIdle == vol_raw = None /\ vol_out = NotCalled /\ vpc = "idle"

\* No call of process_file is under way.
ParserIdle == pdf = NoPdf /\ report = None /\ ppc = "idle"

\* No call of normalize_sso_record is under way.
SchemaIdle == raw_in = << >> /\ sso_record = RaisedRecord /\ issues = << >> /\ qpc = "idle"

\* No call of simplify_permittee_name is under way.
NamesIdle == permittee_name = Empty /\ simplified = Empty /\ npc = "idle"

\* No call of fetch_ssos is under way.
FetchIdle ==
    /\ layer = NoLayer
    /\ limit = None
    /\ result_record_count = None
    /\ page_size = 0
    /\ offset = 0
    /\ fetched = << >>
    /\ requests = << >>
    /\ fpc = "idle"

\* parse_only.main is not running.
BatchIdle ==
    /\ by_sso = << >>
    /\ batch_paths = << >>
    /\ batch_read = 0
    /\ batch_csv = << >>
    /\ bpc = "idle"

\* No call of parse_text from outside process_file is under way.
TextIdle == text_in = Empty /\ text_report = None /\ tpc = "idle"

\* No call of sso_transform.normalize_sso_record is under way.
AliasIdle ==
    raw_permit_no = None /\ raw_permittee = None /\ utility_name = None /\ apc = "idle"

\* The downloader is not running.
DownloadIdle ==
    /\ listing = << >>
    /\ saved = {}
    /\ links = << >>
    /\ dl_next = 0
    /\ dl_count = 0
    /\ dl_limit = None
    /\ dl_run = 0
    /\ dpc = "idle"

\* No call outside the report pipeline is under way.
ExtIdle == FetchIdle /\ BatchIdle /\ TextIdle /\ AliasIdle /\ DownloadIdle

Init ==
    IsDisk(disk, DedupeDocs) /\ InitMain /\ VolumeIdle /\ ParserIdle /\ SchemaIdle /\ NamesIdle /\ ExtIdle

InitWater ==
    IsDisk(disk, WaterDocs) /\ InitMain /\ VolumeIdle /\ ParserIdle /\ SchemaIdle /\ NamesIdle /\ ExtIdle

\* A caller about to pass a volume string to parse_est_volume.
InitVolume ==
    /\ disk = << >>
    /\ InitMain
    /\ vol_raw \in VolumeInputs
    /\ vol_out = NotCalled
    /\ vpc = "call"
    /\ ParserIdle
    /\ SchemaIdle
    /\ NamesIdle
    /\ ExtIdle

\* A caller about to pass a document to process_file.
InitParser ==
    /\ disk = << >>
    /\ InitMain
    /\ VolumeIdle
    /\ pdf \in Pdfs
    /\ report = None
    /\ ppc = "call"
    /\ SchemaIdle
    /\ NamesIdle
    /\ ExtIdle

\* A caller about to pass a raw mapping to normalize_sso_record.
InitSchema ==
    /\ disk = << >>
    /\ InitMain
    /\ VolumeIdle
    /\ ParserIdle
    /\ IsRaw(raw_in)
    /\ sso_record = RaisedRecord
    /\ issues = << >>
    /\ qpc = "call"
    /\ NamesIdle
    /\ ExtIdle

\* A caller about to pass a name to simplify_permittee_name.
InitNames ==
    /\ disk = << >>
    /\ InitMain
    /\ VolumeIdle
    /\ ParserIdle
    /\ SchemaIdle
    /\ permittee_name \in PermitteeNames
    /\ simplified = Empty
    /\ npc = "call"
    /\ ExtIdle

\* sorted(files) of one directory, keeping the names that end in .pdf
DirPdfs(dir) ==
    LET present(name) == <<dir, name>> \in DOMAIN disk /\ IsPdfName(name)
        names == SelectSeq(SortedNames, present)
    IN  [k \in 1..Len(names) |-> <<dir, names[k]>>]

\* os.walk(PDF_DIR), top-down
Walk ==
    /\ pc = "walk"
    /\ pdf_paths' = DirPdfs(Dirs[1]) \o DirPdfs(Dirs[2])
    /\ pc' = "process"
    /\ UNCHANGED <<disk, rows, missing_crit, by_key, deduped_rows, csv, summary, callvars>>

NextPath == pdf_paths[summary.total + 1]

\* not row.get("sso_id") or not row.get("start") or not row.get("volume")
MissingCritical(row) == row.sso_id = Empty \/ row.start = Empty \/ row.volume = Empty

\* The try branch of the loop over pdf_paths.
ProcessPdf ==
    /\ pc = "process"
    /\ summary.total < Len(pdf_paths)
    /\ disk[NextPath].readable
    /\ LET row == process_pdf(NextPath, disk[NextPath])
       IN  /\ rows' = Append(rows, row)
           /\ missing_crit' = IF MissingCritical(row) THEN missing_crit + 1 ELSE missing_crit
    /\ summary' = [summary EXCEPT !.total = @ + 1]
    /\ UNCHANGED <<disk, pdf_paths, by_key, deduped_rows, csv, pc, callvars>>

\* Mutant: the exception of a document is not caught and ends the run.
ProcessFailAborts ==
    /\ pc = "process"
    /\ summary.total < Len(pdf_paths)
    /\ ~disk[NextPath].readable
    /\ pc' = "aborted"
    /\ UNCHANGED <<disk, pdf_paths, rows, missing_crit, by_key, deduped_rows, csv, summary,
                   callvars>>

\* The except branch: the document is reported and contributes no row.
ProcessFail ==
    /\ pc = "process"
    /\ summary.total < Len(pdf_paths)
    /\ ~disk[NextPath].readable
    /\ summary' = [summary EXCEPT !.total = @ + 1]
    /\ UNCHANGED <<disk, pdf_paths, rows, missing_crit, by_key, deduped_rows, csv, pc,
                   callvars>>

Dedupe ==
    /\ pc = "process"
    /\ summary.total = Len(pdf_paths)
    /\ by_key' = dedupe_keep_newest(rows)
    /\ deduped_rows' = DictValues(by_key')
    /\ pc' = "disambiguate"
    /\ UNCHANGED <<disk, pdf_paths, rows, missing_crit, csv, summary, callvars>>

\* disambiguate_waterways(deduped_rows): mutates the record objects in place.
Disambiguate ==
    /\ pc = "disambiguate"
    /\ rows' = disambiguate_waterways(rows, deduped_rows)
    /\ pc' = "write"
    /\ UNCHANGED <<disk, pdf_paths, missing_crit, by_key, deduped_rows, csv, summary, callvars>>

\* out = dict(row); out.pop("_ts"); writer.writerow(out)
CsvRow(row) ==
    [sso_id |-> row.sso_id, permittee |-> row.permittee, start |-> row.start,
     volume |-> row.volume, receiving_water |-> row.receiving_water,
     file_name |-> row.file_name]

WriteCsv ==
    /\ pc = "write"
    /\ csv' = [j \in 1..Len(deduped_rows) |-> CsvRow(rows[deduped_rows[j]])]
    /\ pc' = "summary"
    /\ UNCHANGED <<disk, pdf_paths, rows, missing_crit, by_key, deduped_rows, summary, callvars>>

\* total = len(pdf_paths); kept = len(deduped_rows); the final print
Summary ==
    /\ pc = "summary"
    /\ summary' = [total |-> Len(pdf_paths), kept |-> Len(deduped_rows),
                   missing_crit |-> missing_crit]
    /\ pc' = "done"
    /\ UNCHANGED <<disk, pdf_paths, rows, missing_crit, by_key, deduped_rows, csv, callvars>>

Next == Walk \/ ProcessPdf \/ ProcessFail \/ Dedupe \/ Disambiguate \/ WriteCsv \/ Summary

\* est_volume_gal, is_range, range_label = parse_est_volume(raw_est_volume)
ParseEstVolume ==
    /\ vpc = "call"
    /\ vol_out' = parse_est_volume(vol_raw)
    /\ vpc' = "returned"
    /\ UNCHANGED <<mainvars, vol_raw, parservars, schemavars, namevars, extvars>>

NextVolume == ParseEstVolume

\* report = parser.process_file(file_path)
ProcessFile ==
    /\ ppc = "call"
    /\ report' = process_file(pdf)
    /\ ppc' = "returned"
    /\ UNCHANGED <<mainvars, volvars, pdf, schemavars, namevars, extvars>>

NextParser == ProcessFile

\* record = normalize_sso_record(raw); an exception ends the caller.
NormalizeSsoRecord ==
    /\ qpc = "call"
    /\ sso_record' = normalize_sso_record(raw_in)
    /\ qpc' = IF normalize_sso_record(raw_in).raised THEN "raised" ELSE "normalized"
    /\ UNCHANGED <<mainvars, volvars, parservars, raw_in, issues, namevars, extvars>>

\* issues = run_basic_qa([record])
RunBasicQa ==
    /\ qpc = "normalized"
    /\ issues' = run_basic_qa(<<sso_record>>)
    /\ qpc' = "checked"
    /\ UNCHANGED <<mainvars, volvars, parservars, raw_in, sso_record, namevars, extvars>>

NextSchema == NormalizeSsoRecord \/ RunBasicQa

\* simplified = simplify_permittee_name(name)
SimplifyPermitteeName ==
    /\ npc = "call"
    /\ simplified' = simplify_permittee_name(permittee_name)
    /\ npc' = "returned"
    /\ UNCHANGED <<mainvars, volvars, parservars, schemavars, permittee_name, extvars>>

NextNames == SimplifyPermitteeName

\* A caller about to query a layer with fetch_ssos.
InitFetch ==
    /\ disk = << >>
    /\ InitMain
    /\ VolumeIdle
    /\ ParserIdle
    /\ SchemaIdle
    /\ NamesIdle
    /\ layer \in Layers
    /\ limit \in Limits
    /\ result_record_count \in ResultRecordCounts
    /\ page_size = 0
    /\ offset = 0
    /\ fetched = << >>
    /\ requests = << >>
    /\ fpc = "call"
    /\ BatchIdle
    /\ TextIdle
    /\ AliasIdle
    /\ DownloadIdle

\* fetch_ssos up to the loop: the metadata, offset = 0, page_size, records = [].
LoadLayerMetadata ==
    /\ fpc = "call"
    /\ page_size' = PageSize(result_record_count, load_layer_metadata(layer).max_record_count)
    /\ offset' = 0
    /\ fetched' = << >>
    /\ fpc' = "page"
    /\ UNCHANGED <<mainvars, volvars, parservars, schemavars, namevars,
                   layer, limit, result_record_count, requests, batchvars, textvars, aliasvars, downloadvars>>

\* One pass of the while loop: a page request that the server answers, the
\* features appended, and the tests that end the loop.
FetchPage ==
    /\ fpc = "page"
    /\ LET supports_pagination == load_layer_metadata(layer).supports_pagination
           page_params  == PageParams(supports_pagination, offset, page_size)
           feature_list == ServerPage(layer, page_params)
           appended     == AppendFeatures(fetched, feature_list, limit)
       IN  /\ requests' = Append(requests, IF page_params = None THEN None
                                           ELSE Some(page_params[1].resultOffset))
           /\ fetched' = appended.records
           /\ offset' = IF feature_list = << >> \/ appended.returned
                        THEN offset ELSE offset + Len(feature_list)
           /\ fpc' = IF \/ feature_list = << >>
                        \/ appended.returned
                        \/ Len(feature_list) < page_size
                        \/ ~supports_pagination
                     THEN "returned" ELSE "page"
    /\ UNCHANGED <<mainvars, volvars, parservars, schemavars, namevars,
                   layer, limit, result_record_count, page_size, batchvars, textvars, aliasvars, downloadvars>>

\* A page request that fails (status not ok, an "error" payload, a body
\* that is not JSON): _get raises SSOClientError out of fetch_ssos.
FetchFails ==
    /\ fpc = "page"
    /\ requests' = Append(requests, IF load_layer_metadata(layer).supports_pagination
                                    THEN Some(offset) ELSE None)
    /\ fpc' = "raised"
    /\ UNCHANGED <<mainvars, volvars, parservars, schemavars, namevars,
                   layer, limit, result_record_count, page_size, offset, fetched,
                   batchvars, textvars, aliasvars, downloadvars>>

NextFetch == LoadLayerMetadata \/ FetchPage \/ FetchFails

\* parse_only.main about to walk a directory tree.
InitBatch ==
    /\ IsDisk(disk, DedupeDocs)
    /\ InitMain
    /\ VolumeIdle
    /\ ParserIdle
    /\ SchemaIdle
    /\ NamesIdle
    /\ FetchIdle
    /\ by_sso = << >>
    /\ batch_paths = << >>
    /\ batch_read = 0
    /\ batch_csv = << >>
    /\ bpc = "walk"
    /\ TextIdle
    /\ AliasIdle
    /\ DownloadIdle

\* for root, _, files in os.walk(PDF_DIR): for filename in sorted(files)
BatchWalk ==
    /\ bpc = "walk"
    /\ batch_paths' = DirPdfs(Dirs[1]) \o DirPdfs(Dirs[2])
    /\ bpc' = "loop"
    /\ UNCHANGED <<mainvars, volvars, parservars, schemavars, namevars, fetchvars, textvars, aliasvars, downloadvars,
                   by_sso, batch_read, batch_csv>>

BatchPath == batch_paths[batch_read + 1]

\* One pass of the loop whose process_pdf returns a row.
BatchRead ==
    /\ bpc = "loop"
    /\ batch_read < Len(batch_paths)
    /\ disk[BatchPath].readable
    /\ by_sso' = BatchStep(by_sso, parse_only_process_pdf(BatchPath, disk[BatchPath]))
    /\ batch_read' = batch_read + 1
    /\ UNCHANGED <<mainvars, volvars, parservars, schemavars, namevars, fetchvars, textvars, aliasvars, downloadvars,
                   batch_paths, batch_csv, bpc>>

\* One pass of the loop whose process_pdf raises: the exception is printed.
BatchFail ==
    /\ bpc = "loop"
    /\ batch_read < Len(batch_paths)
    /\ ~disk[BatchPath].readable
    /\ batch_read' = batch_read + 1
    /\ UNCHANGED <<mainvars, volvars, parservars, schemavars, namevars, fetchvars, textvars, aliasvars, downloadvars,
                   by_sso, batch_paths, batch_csv, bpc>>

\* The CSV: every row of by_sso.values(), its _ts popped.
BatchWrite ==
    /\ bpc = "loop"
    /\ batch_read = Len(batch_paths)
    /\ batch_csv' = [k \in 1..Len(by_sso) |-> [by_sso[k].row EXCEPT !.ts = Empty]]
    /\ bpc' = "done"
    /\ UNCHANGED <<mainvars, volvars, parservars, schemavars, namevars, fetchvars, textvars, aliasvars, downloadvars,
                   by_sso, batch_paths, batch_read>>

NextBatch == BatchWalk \/ BatchRead \/ BatchFail \/ BatchWrite

\* A caller about to pass the text of a report to parse_text.
InitText ==
    /\ disk = << >>
    /\ InitMain
    /\ VolumeIdle
    /\ ParserIdle
    /\ SchemaIdle
    /\ NamesIdle
    /\ FetchIdle
    /\ BatchIdle
    /\ text_in \in ReportTexts
    /\ text_report = None
    /\ tpc = "call"
    /\ AliasIdle
    /\ DownloadIdle

\* report = parser.parse_text(text)
ParseText ==
    /\ tpc = "call"
    /\ text_report' = Some(parse_text(text_in))
    /\ tpc' = "returned"
    /\ UNCHANGED <<mainvars, volvars, parservars, schemavars, namevars, fetchvars,
                   batchvars, text_in, aliasvars, downloadvars>>

NextText == ParseText

\* A caller about to pass a raw record to sso_transform.normalize_sso_record.
InitAlias ==
    /\ disk = << >>
    /\ InitMain
    /\ VolumeIdle
    /\ ParserIdle
    /\ SchemaIdle
    /\ NamesIdle
    /\ FetchIdle
    /\ BatchIdle
    /\ TextIdle
    /\ raw_permit_no \in PermitNumbers
    /\ raw_permittee \in AliasNames
    /\ utility_name = None
    /\ apc = "call"
    /\ DownloadIdle

\* record = normalize_sso_record(raw), sso_transform.py: its utility_name.
TransformRecord ==
    /\ apc = "call"
    /\ utility_name' = transform_utility_name(raw_permit_no, raw_permittee)
    /\ apc' = "returned"
    /\ UNCHANGED <<mainvars, volvars, parservars, schemavars, namevars, fetchvars,
                   batchvars, textvars, raw_permit_no, raw_permittee, downloadvars>>

NextAlias == TransformRecord

\* The downloader about to run against a listing, DOWNLOAD_DIR empty.
InitDownload ==
    /\ disk = << >>
    /\ InitMain
    /\ VolumeIdle
    /\ ParserIdle
    /\ SchemaIdle
    /\ NamesIdle
    /\ FetchIdle
    /\ BatchIdle
    /\ TextIdle
    /\ AliasIdle
    /\ listing \in Listings
    /\ saved = {}
    /\ links = << >>
    /\ dl_next = 0
    /\ dl_count = 0
    /\ dl_limit \in {None, Some(1)}
    /\ dl_run = 1
    /\ dpc = "scrape"

\* links = scrape_links(), then download_pdfs(links) starts its loop.
ScrapeLinks ==
    /\ dpc = "scrape"
    /\ links' = scrape_links(listing, saved)
    /\ dl_next' = 1
    /\ dl_count' = 0
    /\ dpc' = "download"
    /\ UNCHANGED <<mainvars, volvars, parservars, schemavars, namevars, fetchvars,
                   batchvars, textvars, aliasvars, listing, saved, dl_limit, dl_run>>

\* limit is not None and count >= limit
LimitReached == dl_limit # None /\ dl_count >= dl_limit[1]

\* One pass of the loop of download_pdfs: the link is skipped when its file
\* exists, else the document is downloaded and saved as dest.
DownloadPdf ==
    /\ dpc = "download"
    /\ dl_next <= Len(links)
    /\ ~LimitReached
    /\ IF links[dl_next].file_name \in FileNames(saved)
       THEN UNCHANGED <<saved, dl_count>>
       ELSE /\ saved' = saved \cup {[file_name |-> links[dl_next].file_name,
                                     doc |-> links[dl_next].url]}
            /\ dl_count' = dl_count + 1
    /\ dl_next' = dl_next + 1
    /\ UNCHANGED <<mainvars, volvars, parservars, schemavars, namevars, fetchvars,
                   batchvars, textvars, aliasvars, listing, links, dl_limit, dl_run, dpc>>

\* One pass of the loop in which the download raises: a warning is logged.
DownloadFails ==
    /\ dpc = "download"
    /\ dl_next <= Len(links)
    /\ ~LimitReached
    /\ links[dl_next].file_name \notin FileNames(saved)
    /\ dl_next' = dl_next + 1
    /\ UNCHANGED <<mainvars, volvars, parservars, schemavars, namevars, fetchvars,
                   batchvars, textvars, aliasvars, listing, saved, links, dl_count,
                   dl_limit, dl_run, dpc>>

\* The loop ends; the downloader is run again against the same listing.
EndRun ==
    /\ dpc = "download"
    /\ dl_next > Len(links) \/ LimitReached
    /\ dpc' = IF dl_run < MaxRuns THEN "scrape" ELSE "done"
    /\ dl_run' = IF dl_run < MaxRuns THEN dl_run + 1 ELSE dl_run
    /\ UNCHANGED <<mainvars, volvars, parservars, schemavars, namevars, fetchvars,
                   batchvars, textvars, aliasvars, listing, saved, links, dl_next,
                   dl_count, dl_limit>>

NextDownload == ScrapeLinks \/ DownloadPdf \/ DownloadFails \/ EndRun

\* Directory trees whose documents differ in report id and footer.
Spec == Init /\ [][Next]_vars

\* Directory trees whose documents differ in permittee and receiving water.
SpecWater == InitWater /\ [][Next]_vars

\* Calls of parse_est_volume on volume strings.
SpecVolume == InitVolume /\ [][NextVolume]_vars

\* Calls of SSOParser.process_file on documents.
SpecParser == InitParser /\ [][NextParser]_vars

\* Calls of normalize_sso_record on raw mappings, followed by run_basic_qa.
SpecSchema == InitSchema /\ [][NextSchema]_vars

\* Calls of simplify_permittee_name on organization names.
SpecNames == InitNames /\ [][NextNames]_vars

\* Calls of SSOClient.fetch_ssos on feature layers.
SpecFetch == InitFetch /\ [][NextFetch]_vars

\* Runs of parse_only.main on directory trees.
SpecBatch == InitBatch /\ [][NextBatch]_vars

\* Calls of SSOParser.parse_text on report texts.
SpecText == InitText /\ [][NextText]_vars

\* Calls of sso_transform.normalize_sso_record on raw records.
SpecAlias == InitAlias /\ [][NextAlias]_vars

\* Runs of scrape_links and download_pdfs against one remote listing.
SpecDownload == InitDownload /\ [][NextDownload]_vars

\* ------------------------------------------------------------------ properties
\* The documents main read without an exception, in reading order.
Readable(path) == disk[path].readable
ReadPaths == SelectSeq(pdf_paths, Readable)

\* The i-th record object as process_pdf created it.
Created(i) == process_pdf(ReadPaths[i], disk[ReadPaths[i]])

\* The record objects in the de-duplicated output.
Kept == {deduped_rows[j] : j \in 1..Len(deduped_rows)}

AfterDedupe == pc \in {"disambiguate", "write", "summary", "done"}
AfterDisambiguate == pc \in {"write", "summary", "done"}
AfterWrite == pc \in {"summary", "done"}

\* The rows that carry report id `id`.
Copies(id) == {i \in 1..Len(rows) : Clean(rows[i].sso_id) = id}
ReportIds == {Clean(rows[i].sso_id) : i \in 1..Len(rows)} \ {Empty}

\* C1: of the rows that share a report id and carry footer timestamps, the
\* output holds one with the greatest timestamp, and no row with a smaller one.
C1_NewestCopyKept ==
    AfterDedupe =>
        \A id \in ReportIds : \A i \in Copies(id) :
            rows[i].ts # Empty =>
                /\ \E k \in Kept \cap Copies(id) :
                        rows[k].ts # Empty /\ rows[k].ts[1] >= rows[i].ts[1]
                /\ \A m \in Copies(id) :
                        (rows[m].ts # Empty /\ rows[m].ts[1] > rows[i].ts[1]) => i \notin Kept

\* Three copies of one report, the newest read second: it is the one kept.
C1_Witness ==
    /\ AfterDedupe
    /\ \E id \in ReportIds : \E i, k, m \in Copies(id) :
        /\ i < k /\ k < m
        /\ rows[i].ts # Empty /\ rows[k].ts # Empty /\ rows[m].ts # Empty
        /\ rows[i].ts[1] < rows[k].ts[1] /\ rows[m].ts[1] < rows[k].ts[1]
        /\ Kept \cap Copies(id) = {k}

\* C2: among rows that share a report id, when exactly one has a footer
\* timestamp it is the one kept, wherever it stands in the input; when none
\* has, the first of them is the one kept.
C2_TimestampedElseFirstSeen ==
    AfterDedupe =>
        \A id \in ReportIds :
            LET timed == {i \in Copies(id) : rows[i].ts # Empty}
            IN  /\ (Cardinality(Copies(id)) >= 2 /\ Cardinality(timed) = 1)
                        => Kept \cap Copies(id) = timed
                /\ (Cardinality(Copies(id)) >= 2 /\ timed = {})
                        => Kept \cap Copies(id) =
                              {CHOOSE i \in Copies(id) : \A h \in Copies(id) : i <= h}

\* Three copies of one report, only the second with a timestamp: it is kept.
C2_Witness ==
    /\ AfterDedupe
    /\ \E id \in ReportIds : \E i, k, m \in Copies(id) :
        /\ i < k /\ k < m
        /\ rows[i].ts = Empty /\ rows[k].ts # Empty /\ rows[m].ts = Empty
        /\ Kept \cap Copies(id) = {k}

\* C3: every row without a report id is in the de-duplicated output.
C3_IdlessRowsAllKept ==
    AfterDedupe => \A i \in 1..Len(rows) : Clean(rows[i].sso_id) = Empty => i \in Kept

\* C4: no two records of the de-duplicated output, nor two rows of the CSV
\* written from it, carry the same report id.
C4_ReportIdUnique ==
    /\ AfterDedupe =>
          \A j, k \in 1..Len(deduped_rows) :
              (j # k /\ Clean(rows[deduped_rows[j]].sso_id) # Empty)
                  => rows[deduped_rows[j]].sso_id # rows[deduped_rows[k]].sso_id
    /\ AfterWrite =>
          \A j, k \in 1..Len(csv) :
              (j # k /\ csv[j].sso_id # Empty) => csv[j].sso_id # csv[k].sso_id

\* Two documents of one report were read, and the CSV has two or more rows.
C4_Witness ==
    /\ pc = "done"
    /\ Len(csv) >= 2
    /\ \E id \in ReportIds : Cardinality(Copies(id)) >= 2

\* C5: running dedupe_keep_newest on the records it returned returns the same
\* records.
C5_DedupeIdempotent ==
    AfterDedupe =>
        LET out == [j \in 1..Len(deduped_rows) |-> rows[deduped_rows[j]]]
            again == dedupe_keep_newest(out)
        IN  /\ Len(again) = Len(out)
            /\ {out[again[k].ref] : k \in 1..Len(again)} = {out[j] : j \in 1..Len(out)}

\* A batch in which de-duplication dropped a row and kept two or more.
C5_Witness ==
    /\ AfterDedupe
    /\ Len(deduped_rows) >= 2
    /\ Len(deduped_rows) < Len(rows)

\* The non-empty organizations that report receiving-water name `name` in the
\* batch given to the disambiguator.
Reporters(name) ==
    {Clean(Created(i).permittee) : i \in {h \in Kept : Clean(Created(h).receiving_water) = name}}
        \ {Empty}

Shared(name) == name # Empty /\ Cardinality(Reporters(name)) >= 2

\* C6 as stated: after disambiguation every record whose name is reported by
\* two or more organizations reads "<name> - <tag>", every other is unchanged.
C6_EverySharedNameTagged ==
    AfterDisambiguate =>
        \A i \in Kept :
            LET name == Clean(Created(i).receiving_water)
            IN  IF Shared(name)
                THEN rows[i].receiving_water =
                        Tagged(name, utility_short_name(Created(i).permittee))
                ELSE rows[i].receiving_water = Created(i).receiving_water

\* C6 as amended: a record whose name is reported by two or more organizations
\* and that names an organization itself reads "<name> - <tag>"; a record
\* whose name is not shared, or that has no organization, is unchanged.
C6_SharedNameTaggedUnlessNoOrg ==
    AfterDisambiguate =>
        \A i \in Kept :
            LET name == Clean(Created(i).receiving_water)
            IN  IF Shared(name) /\ Clean(Created(i).permittee) # Empty
                THEN rows[i].receiving_water =
                        Tagged(name, utility_short_name(Created(i).permittee))
                ELSE rows[i].receiving_water = Created(i).receiving_water

\* Two organizations and a record without organization report one name: the
\* first two are tagged, the third is not.
C6_Witness ==
    /\ AfterDisambiguate
    /\ \E i, k, m \in Kept :
        /\ Shared(Clean(Created(i).receiving_water))
        /\ Created(k).receiving_water = Created(i).receiving_water
        /\ Created(m).receiving_water = Created(i).receiving_water
        /\ Created(i).permittee # Empty /\ Created(k).permittee # Empty
        /\ Created(i).permittee # Created(k).permittee
        /\ Created(m).permittee = Empty
        /\ rows[i].receiving_water # Created(i).receiving_water
        /\ rows[k].receiving_water # Created(k).receiving_water
        /\ rows[m].receiving_water = Created(m).receiving_water

\* C7: a record that one application of disambiguate_waterways has tagged is
\* not tagged again by a further application to the batch.
C7_TagAppendedOnce ==
    AfterDisambiguate =>
        LET again == disambiguate_waterways(rows, deduped_rows)
        IN  \A i \in Kept :
                rows[i].receiving_water # Created(i).receiving_water
                    => again[i].receiving_water = rows[i].receiving_water

MatchedKeys ==
    IF vol_raw = None THEN {}
    ELSE {k \in 1..Len(BUCKET_MAPPINGS) :
            StartsWith(normalize_raw_value(Clean(vol_raw[1])), BUCKET_MAPPINGS[k].key)}

\* C9: for a volume string that, with blanks removed and case folded, equals
\* or starts with a key of the bucket table, parse_est_volume returns the
\* upper bound of that bucket, is_range = TRUE and the label
\* "<lower> - <upper>" with thousands separators.
C9_BucketUpperBoundAndLabel ==
    vpc = "returned" =>
        \A k \in MatchedKeys :
            LET b == BUCKET_MAPPINGS[k]
            IN  /\ ~vol_out.raised
                /\ vol_out.est_volume_gal = Some(b.upper)
                /\ vol_out.is_range
                /\ vol_out.range_label =
                      Some(FmtThousands(b.lower) \o <<" ", "-", " ">> \o FmtThousands(b.upper))
                /\ b.lower = 0 =>
                      vol_out.range_label = Some(<<"0", " ", "-", " ", "1", ",", "0", "0", "0">>)

\* A text that starts with a key only once blanks are removed and case is
\* folded (such as "1,000 < GALLons <= 99") was parsed to the 1,000 - 10,000
\* bucket.
C9_Witness ==
    /\ vpc = "returned"
    /\ MatchedKeys # {}
    /\ \A k \in 1..Len(BUCKET_MAPPINGS) : ~StartsWith(vol_raw[1], BUCKET_MAPPINGS[k].key)
    /\ vol_out.est_volume_gal = Some(10000)
    /\ vol_out.range_label =
          Some(<<"1", ",", "0", "0", "0", " ", "-", " ", "1", "0", ",", "0", "0", "0">>)

\* C10: for a volume string made up of digits, commas and whitespace only,
\* parse_est_volume returns the integer its digits spell, is_range = FALSE
\* and no range label.
C10_NumericTextIsExactInteger ==
    (vpc = "returned" /\ vol_raw # None /\ IsNumericText(vol_raw[1])) =>
        vol_out = Returned(Some(DigitsValue(WithoutSpaces(WithoutCommas(vol_raw[1])))),
                           FALSE, None)

\* The argument is a string that is neither empty, nor made of digits, commas
\* and blanks only, nor a match of the bucket table.
OtherVolumeText ==
    /\ vol_raw # None
    /\ Clean(vol_raw[1]) # Empty
    /\ ~IsNumericText(Clean(vol_raw[1]))
    /\ MatchedKeys = {}

OneMillionGall ==
    <<"1", ",", "0", "0", "0", ",", "0", "0", "0", " ", "<", " ", "g", "a", "l", "l">>

C12_FailedDocumentDoesNotAbort ==
    /\ pc \in {"walk", "process", "disambiguate", "write", "summary", "done"}
    /\ (pc = "process" /\ summary.total < Len(pdf_paths)) => ENABLED (ProcessPdf \/ ProcessFail)
    /\ pc = "process" => Len(rows) <= summary.total
    /\ AfterDedupe =>
          /\ Len(rows) = Len(ReadPaths)
          /\ \A i \in 1..Len(rows) : rows[i].file_name = <<ReadPaths[i][2]>>
          /\ Len(deduped_rows) = Len(by_key)
    /\ pc = "done" =>
          /\ summary.total = Len(pdf_paths)
          /\ Len(csv) = Len(deduped_rows)
          /\ (rows # << >>) => (csv # << >>)

\* The run is done; the second of three documents raised, the other two are
\* rows and the CSV is written.
C12_Witness ==
    /\ pc = "done"
    /\ Len(pdf_paths) = 3
    /\ disk[pdf_paths[1]].readable /\ ~disk[pdf_paths[2]].readable
    /\ disk[pdf_paths[3]].readable
    /\ Len(rows) = 2
    /\ csv # << >>

\* The rows of the CSV that lack a report id, a start time or a volume.
CsvMissingCritical ==
    {j \in 1..Len(csv) :
        csv[j].sso_id = Empty \/ csv[j].start = Empty \/ csv[j].volume = Empty}

\* C14: the count of records with missing critical fields in the summary is
\* the number of such records in the de-duplicated output, and is at most
\* the number of records kept.
C14_MissingCountIsOfKeptRecords ==
    pc = "done" =>
        /\ summary.missing_crit = Cardinality(CsvMissingCritical)
        /\ summary.missing_crit <= summary.kept

\* The text is blank: text.strip() is "".
Blank(text) == Clean(text) = Empty

\* No usable text: the text layer is unreadable or blank, and the OCR
\* fallback fails or recognises only blank text on every page.
NoUsableText(doc) ==
    /\ ~doc.opens \/ Blank(Concat(doc.pages))
    /\ ~doc.ocr_ok \/ \A k \in 1..Len(doc.images) : Blank(doc.images[k])

\* C13: a document for which neither the text layer nor the OCR fallback
\* gives non-blank text is excluded: process_file returns no record.
C13_NoUsableTextNoRecord ==
    (ppc = "returned" /\ NoUsableText(pdf)) => report = None

\* normalize_sso_record has returned or raised.
Assembled == qpc \in {"raised", "normalized", "checked"}

\* C15: normalize_sso_record returns a record for every raw mapping; a date,
\* number, coordinate or volume that cannot be parsed is null in the record
\* and no exception reaches the caller.
C15_AssemblyNeverRaises ==
    Assembled =>
        /\ ~sso_record.raised
        /\ Get(raw_in, "date_sso_began") = Str(<<"g", "a", "r", "b", "a", "g", "e">>) => sso_record.date_sso_began = None
        /\ Get(raw_in, "volume_gallons") = Str(<<"a", "b", "c">>) =>
              sso_record.volume_gallons = sso_record.est_volume_gal
        /\ Get(raw_in, "x") = Str(<<"a", "b", "c">>) => sso_record.x = None
        /\ Get(raw_in, "est_volume") = Str(<<"u", "n", "k", "n", "o", "w", "n">>) =>
              sso_record.est_volume_gal = None

\* C16: volume_gallons of every assembled record is null or at least 0.
C16_VolumeNeverNegative ==
    (Assembled /\ ~sso_record.raised) =>
        sso_record.volume_gallons = None \/ sso_record.volume_gallons[1] >= 0

\* C17: the raw payload of an assembled record holds every key of the input
\* mapping with the value the input holds.
C17_RawPayloadKeepsInput ==
    (Assembled /\ ~sso_record.raised) =>
        \A key \in DOMAIN raw_in :
            key \in DOMAIN sso_record.raw /\ sso_record.raw[key] = raw_in[key]

\* The record stopped before it began.
StopBeforeStart(rec) ==
    /\ rec.date_sso_began # None
    /\ rec.date_sso_stopped # None
    /\ rec.date_sso_stopped[1] < rec.date_sso_began[1]

\* C18: a record whose stop is earlier than its start is returned by
\* assembly, and run_basic_qa reports an issue for it.
C18_StopBeforeStartFlagged ==
    (qpc = "checked" /\ StopBeforeStart(sso_record)) => issues # << >>

\* The document that row i was extracted from.
DocOf(i) == disk[ReadPaths[i]]

\* C19: a field the extractor does not find in the document is null in its
\* output, never the empty string.  The values process_pdf stores under
\* sso_id, start and volume are strings, Empty being "".
C19_MissingFieldIsNull ==
    \A i \in 1..Len(rows) :
        /\ DocOf(i).sso_id = Empty => rows[i].sso_id # Empty
        /\ DocOf(i).start = Empty => rows[i].start # Empty
        /\ DocOf(i).volume = Empty => rows[i].volume # Empty

\* The acronym a name holds in parentheses, << >> for none.
NameAcronym(name) ==
    IF \E i \in 1..Len(name) : AcronymOf(name[i]) # Empty
    THEN AcronymOf(name[CHOOSE i \in 1..Len(name) : AcronymOf(name[i]) # Empty])
    ELSE Empty

\* C20: for a name without entry in the alias table that holds an acronym in
\* parentheses, the canonical name is the acronym, whatever boilerplate
\* prefix the name has.
C20_AcronymUsedVerbatim ==
    (npc = "returned" /\ MapHits(permittee_name) = {} /\ NameAcronym(permittee_name) # Empty)
        => simplified = NameAcronym(permittee_name)

\* The page requests carried consecutive offsets: 0, then the number of
\* records received so far (pages of the sizes the server sent).
ConsecutiveOffsets ==
    /\ requests # << >>
    /\ requests[1] = Some(0)
    /\ \A i \in 2..Len(requests) :
          /\ requests[i] # None
          /\ requests[i - 1] # None
          /\ requests[i][1] > requests[i - 1][1]
          /\ requests[i][1] <= Len(fetched)
    /\ requests[Len(requests)][1] <= Len(fetched)

\* C21: with no limit, on a layer that reports pagination support, a call
\* of fetch_ssos that returns has requested consecutive offsets and returns
\* every record the server holds for the query exactly once and in server
\* order; it stops only when the data is exhausted.
C21_EveryRecordOnceInOrder ==
    (fpc = "returned" /\ limit = None /\ layer.supportsPagination) =>
        /\ fetched = Features(layer)
        /\ ConsecutiveOffsets

\* The number of records fetch_ssos had received when it sent request i:
\* the resultOffset of the request, 0 for a request without one.
ReceivedBefore(i) == IF requests[i] = None THEN 0 ELSE requests[i][1]

FiledAt(footer) ==
    footer[1].day * 24 + (footer[1].hour % 12)
        + (IF footer[1].ampm = "PM" THEN 12 ELSE 0)

\* C23: footer timestamps are ordered as the documents were filed: for any
\* two documents read whose footers carry a date and time, the one filed
\* later has the greater extract_submission_ts.
C23_FooterOrderIsFilingOrder ==
    \A i, j \in 1..Len(rows) :
        ( /\ DocOf(i).footer # NoFooter
          /\ DocOf(j).footer # NoFooter
          /\ FiledAt(DocOf(i).footer) > FiledAt(DocOf(j).footer) )
        => /\ rows[i].ts # Empty
           /\ rows[j].ts # Empty
           /\ rows[i].ts[1] > rows[j].ts[1]

\* The documents parse_only.main has read so far without an exception.
BatchReadPaths == SelectSeq(SubSeq(batch_paths, 1, batch_read), Readable)

\* C24: after any sequence of documents, the row parse_only.main stores for
\* a report id is a copy with the latest footer timestamp among all copies
\* read for that id, whether or not an earlier copy had a footer timestamp.
C24_BatchKeepsNewestCopy ==
    \A k \in 1..Len(by_sso) : \A i \in 1..Len(BatchReadPaths) :
        LET copy == parse_only_process_pdf(BatchReadPaths[i], disk[BatchReadPaths[i]])
        IN  (copy.sso_id = by_sso[k].key /\ copy.ts # Empty) =>
                /\ by_sso[k].row.ts # Empty
                /\ by_sso[k].row.ts[1] >= copy.ts[1]

\* C25: after disambiguate_waterways no receiving_water value is shared by
\* records of two different non-empty organizations.
C25_NoNameSharedAcrossOrganizations ==
    AfterDisambiguate =>
        \A i, k \in Kept :
            ( /\ Clean(rows[i].permittee) # Empty
              /\ Clean(rows[k].permittee) # Empty
              /\ Clean(rows[i].permittee) # Clean(rows[k].permittee)
              /\ Clean(rows[i].receiving_water) # Empty )
            => rows[i].receiving_water # rows[k].receiving_water

\* volume_gallons of a report in which only the volume pattern is applied.
VolumeAlone(text) == parse_numeric(VolumeBranch(NoVolumeData, text).volume_gallons)

\* The volume pattern captured a value without range wording.
ExactCaptured(text) ==
    SearchVolume(text) # None /\ ~IsRangeWording(SearchVolume(text)[1])

\* C26: in parse_text an exact volume that was captured is the
\* volume_gallons of the report whatever the range pattern matched; the
\* value of the range pattern is the volume_gallons only when no volume was
\* captured or the captured volume is the 9999 range placeholder.
C26_RangeValueOnlyFillsGap ==
    tpc = "returned" =>
        /\ ExactCaptured(text_in) => text_report[1].volume_gallons = VolumeAlone(text_in)
        /\ text_report[1].volume_gallons # VolumeAlone(text_in) =>
              /\ SearchVolumeRange(text_in) # None
              /\ ~ExactCaptured(text_in)
              /\ text_report[1].volume_gallons =
                    parse_numeric(Some(Captured(SearchVolumeRange(text_in)[1])))

\* A report text with the exact volume 500 and the range up to 10,000:
\* parse_text returned the volume 500.
C26_Witness ==
    /\ tpc = "returned"
    /\ SearchVolume(text_in) = Some(<<"500">>)
    /\ SearchVolumeRange(text_in) = Some(<<"10,000">>)
    /\ text_report[1].volume_gallons = Some(500)

\* parse_text takes volume_gallons from a reported range: the volume field
\* has range wording, or the value of the range pattern is stored.
VolumeFromRange(text) ==
    \/ SearchVolume(text) # None /\ IsRangeWording(SearchVolume(text)[1])
    \/ SearchVolumeRange(text) # None /\ ~ExactCaptured(text)

\* C27: whenever parse_text takes volume_gallons from a reported range, the
\* report it returns has est_volume_is_range = true.
C27_RangeVolumeIsFlagged ==
    (tpc = "returned" /\ VolumeFromRange(text_in)) => text_report[1].est_volume_is_range

\* The display names PERMITTEE_MAP gives for s with its letter case folded.
DisplayNames(s) ==
    IF s = None THEN {}
    ELSE {PERMITTEE_MAP[j].v : j \in MapKeys(LowerStr(s[1]))}

\* C28: alias-table lookup is case-insensitive for every key: a record whose
\* organization name or permit id equals a PERMITTEE_MAP key in any letter
\* case is given the mapped display name by normalize_sso_record.
C28_AliasLookupIgnoresCase ==
    (apc = "returned"
        /\ DisplayNames(raw_permit_no) \cup DisplayNames(raw_permittee) # {})
    => /\ utility_name # None
       /\ utility_name[1] \in DisplayNames(raw_permit_no) \cup DisplayNames(raw_permittee)

\* C29: simplify_permittee_name is idempotent: canonicalizing the result of
\* a call again returns the same canonical name.
C29_SimplifyIsIdempotent ==
    npc = "returned" => simplify_permittee_name(simplified) = simplified

\* C30: re-running scrape_links and download_pdfs against an unchanged
\* remote listing downloads nothing new: a document that an earlier run
\* saved is not written again under another file name.
C30_NoSecondCopyOnRerun ==
    \A f, g \in saved : f.doc = g.doc => f.file_name = g.file_name
====
